---- MODULE Spec2Model ----
(***************************************************************************)
(* Model of the manga translation pipeline's geometric and layout core:    *)
(*   - region grouping            (src/main.py)                            *)
(*   - line wrapping, hyphenation and font-size search                     *)
(*                                (src/text_renderer.py)                   *)
(* A box is the tuple <<x_min, y_min, x_max, y_max>>; Python's b[k] is     *)
(* box[k+1] here.                                                          *)
(***************************************************************************)
EXTENDS Integers, Sequences, FiniteSets, TLC

VARIABLES
    \* ---- group_bounding_boxes / get_group_bounding_box (src/main.py)
    boxes,            \* the argument: list of detection boxes
    y_threshold,      \* the argument y_threshold
    sorted_boxes,     \* local sorted_boxes
    groups,           \* local groups
    current_group,    \* local current_group
    i,                \* loop index of `for i in range(1, len(sorted_boxes))`
    group_boxes,      \* get_group_bounding_box of every returned group
    gpc,              \* position in group_bounding_boxes
    \* ---- calculate_font_size / wrap_text_with_breaking (src/text_renderer.py)
    text,             \* the argument text, a sequence of characters
    box_width,        \* the argument box_width
    box_height,       \* the argument box_height
    max_size,         \* the argument max_size
    min_size,         \* the argument min_size
    low,              \* local low
    high,             \* local high
    best_size,        \* local best_size
    best_wrapped_text,\* local best_wrapped_text
    size,             \* local size: the size probed last
    result,           \* local result: what the line wrapper returned last
    fpc,              \* position in calculate_font_size
    probes,           \* the sizes the line wrapper was called with, in order
    fitting_sizes,    \* when the line wrapper is left open: the sizes at
                      \* which it succeeds for the font in use
    \* ---- break_long_word (src/text_renderer.py)
    break_word,       \* the argument word
    break_max_width,  \* the argument max_width
    break_size,       \* the size of the argument font
    break_result,     \* the returned string
    bpc,              \* position in break_long_word
    \* ---- render_text (src/text_renderer.py)
    text_argument,    \* the argument translated_text as it was passed
    translated_text,  \* the local translated_text, reassigned by the
                      \* normalization
    bounding_box,     \* the argument bounding_box
    font_size,        \* local font_size
    wrapped_text,     \* local wrapped_text
    searches,         \* number of calls of calculate_font_size made
    draws,            \* the draw.text calls made on the image, in order
    rpc,              \* position in render_text
    \* ---- process_manga_page (src/main.py)
    bounding_boxes,   \* local bounding_boxes: the detected boxes
    grouped_boxes,    \* local grouped_boxes
    group_index,      \* position of the loop over grouped_boxes / over
                      \* translated_texts
    translated_texts, \* local translated_texts
    inpainted,        \* the boxes handed to remove_text
    rendered,         \* the (box, text) pairs render_text has drawn
    saved,            \* what was written to output_image_path
    page_log,         \* the warnings and errors logged, in order
    ppc,              \* position in process_manga_page
    \* ---- MainWindow, undo and redo (src/gui/main_window.py)
    translated_data,  \* self.translated_data: the english_text of every region
    undo_stack,       \* self.undo_stack
    redo_stack,       \* self.redo_stack
    current_selection_index, \* self._current_selection_index
    canvas_boxes,     \* len(self.canvas.bounding_boxes)
    last_actions,     \* the last two handlers that ran, oldest first
    snapshots,        \* translated_data and the stacks before each of them
    \* ---- MainWindow, translation (src/gui/main_window.py)
    current_image_path, \* self.current_image_path
    tl_btn,           \* self.tl_btn.isEnabled()
    translate_toolbar_action, \* self.translate_toolbar_action.isEnabled()
    translation_worker, \* self.translation_worker
    running,          \* the started workers that have not reported yet
    started,          \* number of workers started so far
    data_source       \* the image whose translation was applied last

gvars == <<boxes, y_threshold, sorted_boxes, groups, current_group, i,
           group_boxes, gpc>>

fvars == <<text, box_width, box_height, max_size, min_size, low, high,
           best_size, best_wrapped_text, size, result, fpc, probes>>

svars == <<fitting_sizes>>

evars == <<translated_data, undo_stack, redo_stack, current_selection_index,
           canvas_boxes, last_actions, snapshots>>

wvars == <<current_image_path, tl_btn, translate_toolbar_action,
           translation_worker, running, started, data_source>>

bvars == <<break_word, break_max_width, break_size, break_result, bpc>>

rvars == <<text_argument, translated_text, bounding_box, font_size, wrapped_text, searches,
           draws, rpc>>

pvars == <<bounding_boxes, grouped_boxes, group_index, translated_texts,
           inpainted, rendered, saved, page_log, ppc>>

vars == <<gvars, fvars, bvars, rvars, pvars, svars, evars, wvars>>

\* the line wrapper is not left open
SearchIdle == fitting_sizes = {}

\* the editor part of MainWindow is at rest
EditorIdle ==
    /\ translated_data = <<>>
    /\ undo_stack = <<>>
    /\ redo_stack = <<>>
    /\ current_selection_index = <<>>
    /\ canvas_boxes = 0
    /\ last_actions = <<>>
    /\ snapshots = <<>>

\* the translation part of MainWindow is at rest
TranslateIdle ==
    /\ current_image_path = "None"
    /\ tl_btn = FALSE
    /\ translate_toolbar_action = FALSE
    /\ translation_worker = 0
    /\ running = {}
    /\ started = 0
    /\ data_source = "None"

\* break_long_word is at rest
BreakIdle ==
    /\ break_word = <<>>
    /\ break_max_width = 0
    /\ break_size = 0
    /\ break_result = <<>>
    /\ bpc = "idle"

\* render_text is at rest
RenderIdle ==
    /\ text_argument = <<>>
    /\ translated_text = <<>>
    /\ bounding_box = <<0, 0, 0, 0>>
    /\ font_size = 0
    /\ wrapped_text = <<>>
    /\ searches = 0
    /\ draws = <<>>
    /\ rpc = "idle"

\* process_manga_page is at rest
PageIdle ==
    /\ bounding_boxes = <<>>
    /\ grouped_boxes = <<>>
    /\ group_index = 0
    /\ translated_texts = <<>>
    /\ inpainted = <<>>
    /\ rendered = <<>>
    /\ saved = "nothing"
    /\ page_log = <<>>
    /\ ppc = "idle"

-----------------------------------------------------------------------------
(* Bounds and program constants *)

\* longest list of detection boxes explored
MaxBoxes == 3

\* default of the parameter y_threshold
DefaultYThreshold == 50

\* The detection boxes explored: the three boxes of the documented example,
\* a box overlapping the first one vertically, boxes at gap 0 and at gap 50
\* from the first one, a box with the first one's (y_min, x_min) and another
\* y_max, and a box beside the second one on the same text line.
BoxUniverse ==
    { <<0, 0, 100, 20>>, <<0, 25, 100, 45>>, <<0, 200, 100, 220>>,
      <<50, 10, 150, 30>>, <<0, 20, 100, 25>>, <<0, 70, 100, 95>>,
      <<0, 0, 100, 45>>, <<120, 25, 160, 45>> }

Thresholds == {0, 5, DefaultYThreshold}

\* all sequences over S of length at most n
SeqUpTo(S, n) == UNION { [1..k -> S] : k \in 0..n }

-----------------------------------------------------------------------------
(* Region grouping: src/main.py *)

KeyLessXFirst(a, b) == a[1] < b[1] \/ (a[1] = b[1] /\ a[2] < b[2])

\* the sort key `lambda b: (b[1], b[0])`, compared as Python compares tuples
KeyLess(a, b) == a[2] < b[2] \/ (a[2] = b[2] /\ a[1] < b[1])

Front(s) == SubSeq(s, 1, Len(s) - 1)
Last(s) == s[Len(s)]

\* insertion of b behind every element whose key is not greater: with
\* elements inserted left to right this is Python's stable `sorted`
RECURSIVE InsertByKey(_, _)
InsertByKey(b, s) ==
    IF s = <<>> THEN <<b>>
    ELSE IF KeyLess(b, Last(s))
         THEN Append(InsertByKey(b, Front(s)), Last(s))
         ELSE Append(s, b)

RECURSIVE SortedByKey(_)
SortedByKey(s) ==
    IF s = <<>> THEN <<>>
    ELSE InsertByKey(Last(s), SortedByKey(Front(s)))

\* vertical_distance = current_y_min - prev_y_max
VerticalDistance(prev_box, current_box) == current_box[2] - prev_box[4]

CloseEnoughNoLowerBound(vertical_distance, threshold) ==
    vertical_distance <= threshold

CloseEnoughStrict(vertical_distance, threshold) ==
    0 <= vertical_distance /\ vertical_distance < threshold

\* the test `0 <= vertical_distance <= y_threshold`
CloseEnough(vertical_distance, threshold) ==
    0 <= vertical_distance /\ vertical_distance <= threshold

AddLastGroupDropped(gs, cg) == gs

\* `if current_group: groups.append(current_group)`
AddLastGroup(gs, cg) == IF cg # <<>> THEN Append(gs, cg) ELSE gs

SeqMin(s) == CHOOSE m \in {s[k] : k \in 1..Len(s)} :
                 \A k \in 1..Len(s) : m <= s[k]
SeqMax(s) == CHOOSE m \in {s[k] : k \in 1..Len(s)} :
                 \A k \in 1..Len(s) : m >= s[k]
Column(group, c) == [k \in 1..Len(group) |-> group[k][c]]

GetGroupBoundingBoxOfFirst(group) ==
    <<SeqMin(Column(group, 1)), SeqMin(Column(group, 2)),
      group[1][3], group[1][4]>>

\* get_group_bounding_box
GetGroupBoundingBox(group) ==
    <<SeqMin(Column(group, 1)), SeqMin(Column(group, 2)),
      SeqMax(Column(group, 3)), SeqMax(Column(group, 4))>>

\* a call of group_bounding_boxes on an explored input; calculate_font_size
\* is at rest
GroupInit ==
    /\ boxes \in SeqUpTo(BoxUniverse, MaxBoxes)
    /\ y_threshold \in Thresholds
    /\ sorted_boxes = <<>>
    /\ groups = <<>>
    /\ current_group = <<>>
    /\ i = 0
    /\ group_boxes = <<>>
    /\ gpc = "start"
    /\ text = <<>>
    /\ box_width = 0
    /\ box_height = 0
    /\ max_size = 0
    /\ min_size = 0
    /\ low = 0
    /\ high = 0
    /\ best_size = 0
    /\ best_wrapped_text = <<>>
    /\ size = 0
    /\ result = <<>>
    /\ probes = <<>>
    /\ fpc = "idle"
    /\ BreakIdle
    /\ RenderIdle
    /\ PageIdle
    /\ SearchIdle
    /\ EditorIdle
    /\ TranslateIdle

NoBoxesResultOneGroup == << <<>> >>

\* the value of `return []`
NoBoxesResult == <<>>

\* `if not boxes: return []`
GroupEmpty ==
    /\ gpc = "start"
    /\ boxes = <<>>
    /\ groups' = NoBoxesResult
    /\ gpc' = "done"
    /\ UNCHANGED <<boxes, y_threshold, sorted_boxes, current_group, i,
                   group_boxes>>
    /\ UNCHANGED <<fvars, bvars, rvars, pvars, svars, evars, wvars>>

\* the sort, `groups = []`, `current_group = [sorted_boxes[0]]`
GroupSort ==
    /\ gpc = "start"
    /\ boxes # <<>>
    /\ sorted_boxes' = SortedByKey(boxes)
    /\ groups' = <<>>
    /\ current_group' = <<sorted_boxes'[1]>>
    /\ i' = 1
    /\ gpc' = "loop"
    /\ UNCHANGED <<boxes, y_threshold, group_boxes>>
    /\ UNCHANGED <<fvars, bvars, rvars, pvars, svars, evars, wvars>>

GroupAppendAgainstFirst ==
    /\ gpc = "loop"
    /\ i < Len(sorted_boxes)
    /\ CloseEnough(VerticalDistance(current_group[1], sorted_boxes[i + 1]),
                   y_threshold)
    /\ current_group' = Append(current_group, sorted_boxes[i + 1])
    /\ i' = i + 1
    /\ UNCHANGED <<boxes, y_threshold, sorted_boxes, groups, group_boxes, gpc>>
    /\ UNCHANGED <<fvars, bvars, rvars, pvars, svars, evars, wvars>>

\* one iteration of the loop, branch `current_group.append(current_box)`
GroupAppend ==
    /\ gpc = "loop"
    /\ i < Len(sorted_boxes)
    /\ CloseEnough(VerticalDistance(sorted_boxes[i], sorted_boxes[i + 1]),
                   y_threshold)
    /\ current_group' = Append(current_group, sorted_boxes[i + 1])
    /\ i' = i + 1
    /\ UNCHANGED <<boxes, y_threshold, sorted_boxes, groups, group_boxes, gpc>>
    /\ UNCHANGED <<fvars, bvars, rvars, pvars, svars, evars, wvars>>

\* one iteration of the loop, branch "new group starts"
GroupNew ==
    /\ gpc = "loop"
    /\ i < Len(sorted_boxes)
    /\ ~CloseEnough(VerticalDistance(sorted_boxes[i], sorted_boxes[i + 1]),
                    y_threshold)
    /\ groups' = Append(groups, current_group)
    /\ current_group' = <<sorted_boxes[i + 1]>>
    /\ i' = i + 1
    /\ UNCHANGED <<boxes, y_threshold, sorted_boxes, group_boxes, gpc>>
    /\ UNCHANGED <<fvars, bvars, rvars, pvars, svars, evars, wvars>>

\* loop exit, "add the last group", `return groups`
GroupReturn ==
    /\ gpc = "loop"
    /\ i >= Len(sorted_boxes)
    /\ groups' = AddLastGroup(groups, current_group)
    /\ gpc' = "done"
    /\ UNCHANGED <<boxes, y_threshold, sorted_boxes, current_group, i,
                   group_boxes>>
    /\ UNCHANGED <<fvars, bvars, rvars, pvars, svars, evars, wvars>>

\* process_manga_page: `group_box = get_group_bounding_box(group)` per group
GroupBoxes ==
    /\ gpc = "done"
    /\ group_boxes' = [g \in 1..Len(groups) |-> GetGroupBoundingBox(groups[g])]
    /\ gpc' = "boxed"
    /\ UNCHANGED <<boxes, y_threshold, sorted_boxes, groups, current_group, i>>
    /\ UNCHANGED <<fvars, bvars, rvars, pvars, svars, evars, wvars>>

GroupNext ==
    \/ GroupEmpty
    \/ GroupSort
    \/ GroupAppend
    \/ GroupNew
    \/ GroupReturn
    \/ GroupBoxes

-----------------------------------------------------------------------------
(* Glyph metrics: what draw.textbbox and draw.multiline_textbbox return for  *)
(* the font loaded by get_font(size).  A text is a sequence of characters;  *)
(* the bbox is <<left, top, right, bottom>>, Python's bbox[k] is bbox[k+1]. *)

\* default of the parameter min_size
DefaultMinSize == 10

\* default of the parameter max_size
DefaultMaxSize == 80

\* longest input text explored, in characters
MaxTextLen == 4

\* the characters of the input texts: two letters and the blank
Letters == {"a", "b"}
InputChars == Letters \cup {" "}

\* the explored (box_width, box_height) pairs and (min_size, max_size) pairs;
\* the last size pair is an empty range
BoxDims == { <<60, 100>>, <<60, 30>>, <<25, 100>>, <<100, 8>>, <<400, 400>> }
SizeRanges == { <<DefaultMinSize, DefaultMaxSize>>, <<10, 10>>, <<12, 20>>,
                <<20, 12>> }

\* the failure outcome None of the line wrapper: no text is equal to it
None == <<"None">>

\* horizontal advance of one character at a size: a blank is half a letter
Advance(c, sz) == IF c = " " THEN sz \div 2 ELSE sz

RECURSIVE InkWidth(_, _)
InkWidth(t, sz) ==
    IF t = <<>> THEN 0 ELSE InkWidth(Front(t), sz) + Advance(Last(t), sz)

\* left side bearing of the first glyph: bbox[0] of a text drawn at (0, 0)
LeftBearing(c, sz) == IF c = "b" THEN sz \div 10 ELSE 0

\* distance from the drawing origin to the top of the ink: bbox[1]
TopOffset(sz) == sz \div 5

\* height of one line of text at a size
LineHeight(sz) == sz

\* Pillow's default `spacing` between the lines of a multi-line text
LineSpacing == 4

\* draw.textbbox((0, 0), t, font=get_font(sz)) for a single-line text
TextBBox(t, sz) ==
    IF t = <<>> THEN <<0, 0, 0, 0>>
    ELSE <<LeftBearing(t[1], sz), TopOffset(sz),
           LeftBearing(t[1], sz) + InkWidth(t, sz), TopOffset(sz) + LineHeight(sz)>>

\* str.split(sep) for a one-character separator: the pieces between the
\* separators, empty pieces included
RECURSIVE SplitOn(_, _)
SplitOn(t, sep) ==
    IF t = <<>> THEN << <<>> >>
    ELSE LET rest == SplitOn(Front(t), sep)
         IN  IF Last(t) = sep
             THEN Append(rest, <<>>)
             ELSE Append(Front(rest), Append(Last(rest), Last(t)))

\* the members of a sequence that satisfy no emptiness, in order
RECURSIVE NonEmpty(_)
NonEmpty(ss) ==
    IF ss = <<>> THEN <<>>
    ELSE IF Last(ss) = <<>> THEN NonEmpty(Front(ss))
         ELSE Append(NonEmpty(Front(ss)), Last(ss))

\* text.split(): the maximal runs of non-blank characters
SplitWords(t) == NonEmpty(SplitOn(t, " "))

\* sep.join(parts)
RECURSIVE Join(_, _)
Join(parts, sep) ==
    IF parts = <<>> THEN <<>>
    ELSE IF Len(parts) = 1 THEN parts[1]
         ELSE Join(Front(parts), sep) \o <<sep>> \o Last(parts)

Contains(t, c) == \E k \in 1..Len(t) : t[k] = c

\* draw.multiline_textbbox((0, 0), wrapped, font, align='center'): the lines
\* stacked with LineSpacing between them, as wide as the widest line
MultilineTextBBox(wrapped, sz) ==
    IF wrapped = <<>> THEN <<0, 0, 0, 0>>
    ELSE LET ls == SplitOn(wrapped, "\n")
             left == LeftBearing(wrapped[1], sz)
             widest == SeqMax([k \in 1..Len(ls) |-> InkWidth(ls[k], sz)])
         IN  <<left, TopOffset(sz), left + widest,
               TopOffset(sz) + Len(ls) * LineHeight(sz)
                             + (Len(ls) - 1) * LineSpacing>>

\* HYPHENATOR.positions(word): the indices at which the dictionary allows a
\* break; in the explored alphabet a break is allowed before every "b" that
\* is not the first letter
HyphenPositions(word) == {k \in 1..(Len(word) - 1) : word[k + 1] = "b"}

-----------------------------------------------------------------------------
(* Word Breaker, Line Wrapper, Font-Size Search: src/text_renderer.py *)

SetMax(S) == CHOOSE m \in S : \A k \in S : m >= k

BreakLongWordForced(word, max_width, sz) ==
    IF TextBBox(word, sz)[3] - TextBBox(word, sz)[1] <= max_width THEN word
    ELSE IF Len(word) > 1
    THEN SubSeq(word, 1, 1) \o <<"-", "\n">> \o SubSeq(word, 2, Len(word))
    ELSE word

\* break_long_word
BreakLongWord(word, max_width, sz) ==
    LET bbox == TextBBox(word, sz)
        w == bbox[3] - bbox[1]
        hyphen_positions == HyphenPositions(word)
        fitting == {k \in hyphen_positions :
                       TextBBox(SubSeq(word, 1, k) \o <<"-">>, sz)[3] <= max_width}
    IN  IF w <= max_width THEN word
        ELSE IF hyphen_positions = {} THEN word
        ELSE IF fitting = {} THEN word
        ELSE SubSeq(word, 1, SetMax(fitting)) \o <<"-", "\n">>
                 \o SubSeq(word, SetMax(fitting) + 1, Len(word))

\* the nested get_text_width
GetTextWidth(t, sz) == TextBBox(t, sz)[3] - TextBBox(t, sz)[1]

PlaceBrokenPrefixOnly(flushed, broken, bw, sz) ==
    LET parts == SplitOn(broken, "\n")
    IN  IF ~Contains(broken, "\n")
        THEN [lines |-> flushed, current_line_words |-> <<>>, failed |-> TRUE]
        ELSE IF \E k \in 1..(Len(parts) - 1) : GetTextWidth(parts[k], sz) > bw
        THEN [lines |-> flushed, current_line_words |-> <<>>, failed |-> TRUE]
        ELSE [lines |-> flushed \o Front(parts),
              current_line_words |-> <<>>, failed |-> FALSE]

\* the branch "Word is too long -> hyphenate", given the flushed lines and
\* broken = break_long_word(word, box_width, draw, font)
PlaceBroken(flushed, broken, bw, sz) ==
    LET parts == SplitOn(broken, "\n")
    IN  IF ~Contains(broken, "\n")
        THEN [lines |-> flushed, current_line_words |-> <<>>, failed |-> TRUE]
        ELSE IF \E k \in 1..(Len(parts) - 1) : GetTextWidth(parts[k], sz) > bw
        THEN [lines |-> flushed, current_line_words |-> <<>>, failed |-> TRUE]
        ELSE [lines |-> flushed \o Front(parts),
              current_line_words |-> <<Last(parts)>>, failed |-> FALSE]

WrapWordEagerFlush(st, word, bw, sz) ==
    IF st.failed THEN st
    ELSE
    LET flushed == IF st.current_line_words # <<>>
                   THEN Append(st.lines, Join(st.current_line_words, " "))
                   ELSE st.lines
    IN  IF st.current_line_words = <<>> /\ GetTextWidth(word, sz) <= bw
        THEN [st EXCEPT !.current_line_words = Append(@, word)]
        ELSE IF GetTextWidth(word, sz) <= bw
        THEN [lines |-> flushed, current_line_words |-> <<word>>, failed |-> FALSE]
        ELSE PlaceBroken(flushed, BreakLongWord(word, bw, sz), bw, sz)

\* the body of `for word in words`, on the loop state
\* [lines, current_line_words, failed]; failed is the early `return None`
WrapWord(st, word, bw, sz) ==
    IF st.failed THEN st
    ELSE
    LET test_line == IF st.current_line_words # <<>>
                     THEN Join(Append(st.current_line_words, word), " ")
                     ELSE word
        flushed == IF st.current_line_words # <<>>
                   THEN Append(st.lines, Join(st.current_line_words, " "))
                   ELSE st.lines
    IN  IF GetTextWidth(test_line, sz) <= bw
        THEN [st EXCEPT !.current_line_words = Append(@, word)]
        ELSE IF GetTextWidth(word, sz) <= bw
        THEN [lines |-> flushed, current_line_words |-> <<word>>, failed |-> FALSE]
        ELSE PlaceBroken(flushed, BreakLongWord(word, bw, sz), bw, sz)

RECURSIVE WrapWords(_, _, _)
WrapWords(words, bw, sz) ==
    IF words = <<>>
    THEN [lines |-> <<>>, current_line_words |-> <<>>, failed |-> FALSE]
    ELSE WrapWord(WrapWords(Front(words), bw, sz), Last(words), bw, sz)

\* "Don't forget the last line"
AllLines(st) ==
    IF st.current_line_words # <<>>
    THEN Append(st.lines, Join(st.current_line_words, " "))
    ELSE st.lines

TooHighNever(wrapped, bh, sz) == FALSE

TooHighInverted(wrapped, bh, sz) ==
    MultilineTextBBox(wrapped, sz)[4] - MultilineTextBBox(wrapped, sz)[2] < bh

\* "Accurate vertical fit check": total_height > box_height
TooHigh(wrapped, bh, sz) ==
    MultilineTextBBox(wrapped, sz)[4] - MultilineTextBBox(wrapped, sz)[2] > bh

TooWideNever(lines, bw, sz) == FALSE

\* "Final horizontal safety check"
TooWide(lines, bw, sz) ==
    \E k \in 1..Len(lines) : GetTextWidth(lines[k], sz) > bw

\* the checks of wrap_text_with_breaking behind the loop, given the lines
CheckedWrap(lines, wrapped, bw, bh, sz) ==
    IF TooHigh(wrapped, bh, sz) THEN None
    ELSE IF TooWide(lines, bw, sz) THEN None
    ELSE wrapped

\* wrap_text_with_breaking behind the loop, given the loop's final state
FinishWrap(st, bw, bh, sz) ==
    IF st.failed THEN None
    ELSE CheckedWrap(AllLines(st), Join(AllLines(st), "\n"), bw, bh, sz)

\* wrap_text_with_breaking
WrapTextWithBreaking(t, bw, bh, sz) ==
    FinishWrap(WrapWords(SplitWords(t), bw, sz), bw, bh, sz)

\* `size = (low + high) // 2`
ProbeSize(lo, hi) == (lo + hi) \div 2

SearchStartBestZero(t, mx, mn) ==
    [low |-> mn, high |-> mx, best_size |-> 0, best_wrapped_text |-> t]

SearchStartEmptyText(t, mx, mn) ==
    [low |-> mn, high |-> mx, best_size |-> mn, best_wrapped_text |-> <<>>]

SearchStartBestMax(t, mx, mn) ==
    [low |-> mn, high |-> mx, best_size |-> mx, best_wrapped_text |-> t]

\* the locals of calculate_font_size before the loop
SearchStart(t, mx, mn) ==
    [low |-> mn, high |-> mx, best_size |-> mn, best_wrapped_text |-> t]

ProbeUpdateDownward(st, sz, res) ==
    IF res = None
    THEN [st EXCEPT !.high = sz - 1]
    ELSE [st EXCEPT !.best_size = sz, !.best_wrapped_text = res,
                    !.high = sz - 1]

ProbeUpdateLinear(st, sz, res) ==
    IF res = None
    THEN [st EXCEPT !.high = st.high - 1]
    ELSE [st EXCEPT !.best_size = sz, !.best_wrapped_text = res,
                    !.low = sz + 1]

ProbeUpdateStaleText(st, sz, res) ==
    IF res = None
    THEN [st EXCEPT !.high = sz - 1]
    ELSE [st EXCEPT !.best_size = sz, !.low = sz + 1]

\* the branches of the loop body, given the probed size and its result
ProbeUpdate(st, sz, res) ==
    IF res = None
    THEN [st EXCEPT !.high = sz - 1]
    ELSE [st EXCEPT !.best_size = sz, !.best_wrapped_text = res,
                    !.low = sz + 1]

\* one iteration of `while low <= high`
Probe(st, t, bw, bh) ==
    ProbeUpdate(st, ProbeSize(st.low, st.high),
                WrapTextWithBreaking(t, bw, bh, ProbeSize(st.low, st.high)))

RECURSIVE SearchLoop(_, _, _, _)
SearchLoop(st, t, bw, bh) ==
    IF st.low <= st.high THEN SearchLoop(Probe(st, t, bw, bh), t, bw, bh)
    ELSE st

CalculateFontSizeEmptyFallback(t, bw, bh, mx, mn) ==
    LET st == SearchLoop(SearchStart(<<>>, mx, mn), t, bw, bh)
    IN  <<st.best_size, st.best_wrapped_text>>

\* calculate_font_size: the pair (best_size, best_wrapped_text) returned
CalculateFontSize(t, bw, bh, mx, mn) ==
    LET st == SearchLoop(SearchStart(t, mx, mn), t, bw, bh)
    IN  <<st.best_size, st.best_wrapped_text>>

\* a call of calculate_font_size on an explored input; group_bounding_boxes
\* is at rest
FontInit ==
    /\ text \in SeqUpTo(InputChars, MaxTextLen)
    /\ \E d \in BoxDims : box_width = d[1] /\ box_height = d[2]
    /\ \E r \in SizeRanges : min_size = r[1] /\ max_size = r[2]
    /\ low = 0
    /\ high = 0
    /\ best_size = 0
    /\ best_wrapped_text = <<>>
    /\ size = 0
    /\ result = <<>>
    /\ probes = <<>>
    /\ fpc = "start"
    /\ boxes = <<>>
    /\ y_threshold = 0
    /\ sorted_boxes = <<>>
    /\ groups = <<>>
    /\ current_group = <<>>
    /\ i = 0
    /\ group_boxes = <<>>
    /\ gpc = "idle"
    /\ BreakIdle
    /\ RenderIdle
    /\ PageIdle
    /\ SearchIdle
    /\ EditorIdle
    /\ TranslateIdle

\* entry of calculate_font_size up to the loop
FontStart ==
    /\ fpc = "start"
    /\ LET st == SearchStart(text, max_size, min_size)
       IN  /\ low' = st.low
           /\ high' = st.high
           /\ best_size' = st.best_size
           /\ best_wrapped_text' = st.best_wrapped_text
    /\ fpc' = "search"
    /\ UNCHANGED <<text, box_width, box_height, max_size, min_size, size, result,
                   probes>>
    /\ UNCHANGED <<gvars, bvars, rvars, pvars, svars, evars, wvars>>

\* one iteration of the loop: probe a size with the line wrapper
FontProbe ==
    /\ fpc = "search"
    /\ low <= high
    /\ size' = ProbeSize(low, high)
    /\ result' = WrapTextWithBreaking(text, box_width, box_height, size')
    /\ \E st \in {ProbeUpdate([low |-> low, high |-> high,
                                 best_size |-> best_size,
                                 best_wrapped_text |-> best_wrapped_text],
                                size', result')} :
           /\ low' = st.low
           /\ high' = st.high
           /\ best_size' = st.best_size
           /\ best_wrapped_text' = st.best_wrapped_text
    /\ probes' = Append(probes, size')
    /\ UNCHANGED <<text, box_width, box_height, max_size, min_size, fpc>>
    /\ UNCHANGED <<gvars, bvars, rvars, pvars, svars, evars, wvars>>

\* loop exit and `return best_size, best_wrapped_text`
FontReturn ==
    /\ fpc = "search"
    /\ low > high
    /\ fpc' = "returned"
    /\ UNCHANGED <<text, box_width, box_height, max_size, min_size, low, high,
                   best_size, best_wrapped_text, size, result, probes>>
    /\ UNCHANGED <<gvars, bvars, rvars, pvars, svars, evars, wvars>>

FontNext ==
    \/ FontStart
    \/ FontProbe
    \/ FontReturn

\* the size ranges and texts explored when the line wrapper is left open
SearchRanges == { <<10, 16>>, <<10, 10>>, <<12, 10>> }
SearchTexts == { <<>>, <<"a", "b", " ", "a">> }

\* what `wrap_text_with_breaking(draw, text, box_width, box_height, font)`
\* returns when the font is left open: None at the sizes that do not fit, and
\* at a size that fits a text that differs from size to size (the input
\* behind one line break per point of size)
OpenWrap(t, sz, fits) ==
    IF sz \in fits THEN [k \in 1..sz |-> "\n"] \o t ELSE None

\* a call of calculate_font_size with a font for which the wrapper succeeds
\* at an arbitrary set of sizes
SearchInit ==
    /\ text \in SearchTexts
    /\ box_width = 0
    /\ box_height = 0
    /\ \E r \in SearchRanges : min_size = r[1] /\ max_size = r[2]
    /\ fitting_sizes \in SUBSET (min_size..max_size)
    /\ low = 0
    /\ high = 0
    /\ best_size = 0
    /\ best_wrapped_text = <<>>
    /\ size = 0
    /\ result = <<>>
    /\ probes = <<>>
    /\ fpc = "start"
    /\ boxes = <<>>
    /\ y_threshold = 0
    /\ sorted_boxes = <<>>
    /\ groups = <<>>
    /\ current_group = <<>>
    /\ i = 0
    /\ group_boxes = <<>>
    /\ gpc = "idle"
    /\ BreakIdle
    /\ RenderIdle
    /\ PageIdle
    /\ EditorIdle
    /\ TranslateIdle

\* one iteration of the loop, the line wrapper left open
FontProbeOpen ==
    /\ fpc = "search"
    /\ low <= high
    /\ size' = ProbeSize(low, high)
    /\ result' = OpenWrap(text, size', fitting_sizes)
    /\ \E st \in {ProbeUpdate([low |-> low, high |-> high,
                                 best_size |-> best_size,
                                 best_wrapped_text |-> best_wrapped_text],
                                size', result')} :
           /\ low' = st.low
           /\ high' = st.high
           /\ best_size' = st.best_size
           /\ best_wrapped_text' = st.best_wrapped_text
    /\ probes' = Append(probes, size')
    /\ UNCHANGED <<text, box_width, box_height, max_size, min_size, fpc>>
    /\ UNCHANGED <<gvars, bvars, rvars, pvars, svars, evars, wvars>>

SearchNext ==
    \/ FontStart
    \/ FontProbeOpen
    \/ FontReturn

-----------------------------------------------------------------------------
(* break_long_word called on its own: src/text_renderer.py *)

\* the explored values of max_width and of the font size
BreakWidths == {25, 60, 100}
BreakSizes == {10, 20, 30}

\* a call of break_long_word on an explored word; everything else is at rest
BreakInit ==
    /\ break_word \in SeqUpTo(Letters, MaxTextLen) \ {<<>>}
    /\ break_max_width \in BreakWidths
    /\ break_size \in BreakSizes
    /\ break_result = <<>>
    /\ bpc = "start"
    /\ boxes = <<>>
    /\ y_threshold = 0
    /\ sorted_boxes = <<>>
    /\ groups = <<>>
    /\ current_group = <<>>
    /\ i = 0
    /\ group_boxes = <<>>
    /\ gpc = "idle"
    /\ text = <<>>
    /\ box_width = 0
    /\ box_height = 0
    /\ max_size = 0
    /\ min_size = 0
    /\ low = 0
    /\ high = 0
    /\ best_size = 0
    /\ best_wrapped_text = <<>>
    /\ size = 0
    /\ result = <<>>
    /\ probes = <<>>
    /\ fpc = "idle"
    /\ RenderIdle
    /\ PageIdle
    /\ SearchIdle
    /\ EditorIdle
    /\ TranslateIdle

\* `prefix = word[:i] + '-'`
Prefix(word, k) == SubSeq(word, 1, k) \o <<"-">>

\* the test of the scan: `draw.textbbox((0, 0), prefix, font=font)[2] <= max_width`
PrefixPasses(word, k, max_width, sz) ==
    TextBBox(Prefix(word, k), sz)[3] <= max_width

\* `if w <= max_width: return word`
BreakFits ==
    /\ bpc = "start"
    /\ GetTextWidth(break_word, break_size) <= break_max_width
    /\ break_result' = BreakLongWord(break_word, break_max_width, break_size)
    /\ bpc' = "returned"
    /\ UNCHANGED <<break_word, break_max_width, break_size>>
    /\ UNCHANGED <<gvars, fvars, rvars, pvars, svars, evars, wvars>>

\* `if not hyphen_positions: return word`
BreakNoPositions ==
    /\ bpc = "start"
    /\ GetTextWidth(break_word, break_size) > break_max_width
    /\ HyphenPositions(break_word) = {}
    /\ break_result' = BreakLongWord(break_word, break_max_width, break_size)
    /\ bpc' = "returned"
    /\ UNCHANGED <<break_word, break_max_width, break_size>>
    /\ UNCHANGED <<gvars, fvars, rvars, pvars, svars, evars, wvars>>

\* the scan returns at the first index, from the last one down, that passes
BreakSplit ==
    /\ bpc = "start"
    /\ GetTextWidth(break_word, break_size) > break_max_width
    /\ \E k \in HyphenPositions(break_word) :
           PrefixPasses(break_word, k, break_max_width, break_size)
    /\ break_result' = BreakLongWord(break_word, break_max_width, break_size)
    /\ bpc' = "returned"
    /\ UNCHANGED <<break_word, break_max_width, break_size>>
    /\ UNCHANGED <<gvars, fvars, rvars, pvars, svars, evars, wvars>>

\* the scan ends without a return: "give up (font too big)"
BreakGiveUp ==
    /\ bpc = "start"
    /\ GetTextWidth(break_word, break_size) > break_max_width
    /\ HyphenPositions(break_word) # {}
    /\ \A k \in HyphenPositions(break_word) :
           ~PrefixPasses(break_word, k, break_max_width, break_size)
    /\ break_result' = BreakLongWord(break_word, break_max_width, break_size)
    /\ bpc' = "returned"
    /\ UNCHANGED <<break_word, break_max_width, break_size>>
    /\ UNCHANGED <<gvars, fvars, rvars, pvars, svars, evars, wvars>>

BreakNext ==
    \/ BreakFits
    \/ BreakNoPositions
    \/ BreakSplit
    \/ BreakGiveUp

-----------------------------------------------------------------------------
(* render_text: src/text_renderer.py *)

\* the default of the argument padding
Padding == 5

\* local outline_width
OutlineWidth == 2

\* the characters U+FF0E (full-width full stop) and U+2026 (ellipsis)
FullwidthStop == "U+FF0E"
Ellipsis == "U+2026"

\* the characters \s matches
Whitespace == {" ", "\n", "\t"}

\* str.replace(old, new) for single characters
Replace(t, old, new) == [k \in 1..Len(t) |-> IF t[k] = old THEN new ELSE t[k]]

\* the first position from p on that holds no whitespace (Len(t) + 1 if none)
RECURSIVE SkipWhitespace(_, _)
SkipWhitespace(t, p) ==
    IF p <= Len(t) /\ t[p] \in Whitespace THEN SkipWhitespace(t, p + 1) ELSE p

\* re.sub(r'\.\s+\.', '..', t) from position p on: the leftmost match is
\* replaced and the scan goes on behind it, so matches never overlap
RECURSIVE SubSpacedPeriods(_, _)
SubSpacedPeriods(t, p) ==
    IF p > Len(t) THEN <<>>
    ELSE IF /\ t[p] = "."
            /\ SkipWhitespace(t, p + 1) > p + 1
            /\ SkipWhitespace(t, p + 1) <= Len(t)
            /\ t[SkipWhitespace(t, p + 1)] = "."
    THEN <<".", ".">> \o SubSpacedPeriods(t, SkipWhitespace(t, p + 1) + 1)
    ELSE <<t[p]>> \o SubSpacedPeriods(t, p + 1)

\* the first position from p on that holds no period (Len(t) + 1 if none)
RECURSIVE SkipPeriods(_, _)
SkipPeriods(t, p) ==
    IF p <= Len(t) /\ t[p] = "." THEN SkipPeriods(t, p + 1) ELSE p

RECURSIVE CollapsePeriodsLazy(_, _)
CollapsePeriodsLazy(t, p) ==
    IF p > Len(t) THEN <<>>
    ELSE IF SkipPeriods(t, p) - p >= 3
    THEN <<".", ".", ".">> \o CollapsePeriodsLazy(t, p + 3)
    ELSE <<t[p]>> \o CollapsePeriodsLazy(t, p + 1)

\* re.sub(r'\.{3,}', '...', t) from position p on: the quantifier is greedy,
\* a match takes the whole run of periods
RECURSIVE CollapsePeriods(_, _)
CollapsePeriods(t, p) ==
    IF p > Len(t) THEN <<>>
    ELSE IF SkipPeriods(t, p) - p >= 3
    THEN <<".", ".", ".">> \o CollapsePeriods(t, SkipPeriods(t, p))
    ELSE <<t[p]>> \o CollapsePeriods(t, p + 1)

\* box_width and box_height of render_text
RenderBoxWidth(bb) == bb[3] - bb[1] - 2 * Padding
RenderBoxHeight(bb) == bb[4] - bb[2] - 2 * Padding

BoxTooSmallWidthOnly(bb) == RenderBoxWidth(bb) <= 0

\* `if box_width <= 0 or box_height <= 0`
BoxTooSmall(bb) == RenderBoxWidth(bb) <= 0 \/ RenderBoxHeight(bb) <= 0

\* int(a + d / 2) for integers a and d: int() truncates towards zero
IntOfHalf(a, d) ==
    IF 2 * a + d >= 0 THEN (2 * a + d) \div 2 ELSE -((-(2 * a + d)) \div 2)

\* (text_x, text_y): the anchor that centres the wrapped block in the box
TextAnchor(bb, wrapped, sz) ==
    LET bbox == MultilineTextBBox(wrapped, sz)
    IN  <<IntOfHalf(bb[1] + Padding, RenderBoxWidth(bb) - (bbox[3] - bbox[1])),
          IntOfHalf(bb[2] + Padding, RenderBoxHeight(bb) - (bbox[4] - bbox[2]))>>

\* the (x_offset, y_offset) pairs of the two nested range loops, in order
AllOffsets ==
    [n \in 1..((2 * OutlineWidth + 1) * (2 * OutlineWidth + 1)) |->
        <<((n - 1) \div (2 * OutlineWidth + 1)) - OutlineWidth,
          ((n - 1) % (2 * OutlineWidth + 1)) - OutlineWidth>>]

NotCentreNeitherAxis(o) == o[1] # 0 /\ o[2] # 0

\* "Skip the center position, which is the main text"
NotCentre(o) == o[1] # 0 \/ o[2] # 0
OutlineOffsets == SelectSeq(AllOffsets, NotCentre)

\* one draw.text call
DrawText(xy, t, sz, fill) == [xy |-> xy, text |-> t, size |-> sz, fill |-> fill]

\* the draw.text calls of the outline loop
OutlineDraws(anchor, wrapped, sz) ==
    [n \in 1..Len(OutlineOffsets) |->
        DrawText(<<anchor[1] + OutlineOffsets[n][1],
                   anchor[2] + OutlineOffsets[n][2]>>, wrapped, sz, "white")]

\* the explored texts and bounding boxes of render_text
RenderChars == InputChars \cup {"."}
RenderBoxes == { <<0, 0, 10, 50>>, <<0, 0, 50, 10>>, <<10, 10, 45, 40>>,
                 <<0, 0, 110, 110>> }

\* a call of render_text on an explored text and box; everything else is at
\* rest
RenderInit ==
    /\ text_argument \in SeqUpTo(RenderChars, MaxTextLen)
    /\ translated_text = text_argument
    /\ bounding_box \in RenderBoxes
    /\ font_size = 0
    /\ wrapped_text = <<>>
    /\ searches = 0
    /\ draws = <<>>
    /\ rpc = "start"
    /\ boxes = <<>>
    /\ y_threshold = 0
    /\ sorted_boxes = <<>>
    /\ groups = <<>>
    /\ current_group = <<>>
    /\ i = 0
    /\ group_boxes = <<>>
    /\ gpc = "idle"
    /\ text = <<>>
    /\ box_width = 0
    /\ box_height = 0
    /\ max_size = 0
    /\ min_size = 0
    /\ low = 0
    /\ high = 0
    /\ best_size = 0
    /\ best_wrapped_text = <<>>
    /\ size = 0
    /\ result = <<>>
    /\ probes = <<>>
    /\ fpc = "idle"
    /\ BreakIdle
    /\ PageIdle
    /\ SearchIdle
    /\ EditorIdle
    /\ TranslateIdle

\* "First normalize full-width periods and ellipsis to ASCII"
RenderReplace ==
    /\ rpc = "start"
    /\ translated_text' =
           Replace(Replace(translated_text, FullwidthStop, "."), Ellipsis, ".")
    /\ rpc' = "replaced"
    /\ UNCHANGED <<text_argument, bounding_box, font_size, wrapped_text,
                   searches, draws>>
    /\ UNCHANGED <<gvars, fvars, bvars, pvars, svars, evars, wvars>>

\* `re.sub(r'\.\s+\.', '..', translated_text)`
RenderUnspace ==
    /\ rpc = "replaced"
    /\ translated_text' = SubSpacedPeriods(translated_text, 1)
    /\ rpc' = "unspaced"
    /\ UNCHANGED <<text_argument, bounding_box, font_size, wrapped_text,
                   searches, draws>>
    /\ UNCHANGED <<gvars, fvars, bvars, pvars, svars, evars, wvars>>

\* `re.sub(r'\.{3,}', '...', translated_text)`
RenderCollapse ==
    /\ rpc = "unspaced"
    /\ translated_text' = CollapsePeriods(translated_text, 1)
    /\ rpc' = "normalized"
    /\ UNCHANGED <<text_argument, bounding_box, font_size, wrapped_text,
                   searches, draws>>
    /\ UNCHANGED <<gvars, fvars, bvars, pvars, svars, evars, wvars>>

\* the box is too small: warn and `return image_pil`
RenderAbort ==
    /\ rpc = "normalized"
    /\ BoxTooSmall(bounding_box)
    /\ rpc' = "returned"
    /\ UNCHANGED <<text_argument, translated_text, bounding_box, font_size,
                   wrapped_text, searches, draws>>
    /\ UNCHANGED <<gvars, fvars, bvars, pvars, svars, evars, wvars>>

\* `font_size, wrapped_text = calculate_font_size(draw, translated_text,
\* box_width, box_height)` with the default size range
RenderSearch ==
    /\ rpc = "normalized"
    /\ ~BoxTooSmall(bounding_box)
    /\ \E found \in {CalculateFontSize(translated_text,
                                       RenderBoxWidth(bounding_box),
                                       RenderBoxHeight(bounding_box),
                                       DefaultMaxSize, DefaultMinSize)} :
           /\ font_size' = found[1]
           /\ wrapped_text' = found[2]
    /\ searches' = searches + 1
    /\ rpc' = "sized"
    /\ UNCHANGED <<text_argument, translated_text, bounding_box, draws>>
    /\ UNCHANGED <<gvars, fvars, bvars, pvars, svars, evars, wvars>>

\* the centring and the outline loop
RenderOutline ==
    /\ rpc = "sized"
    /\ draws' = draws \o OutlineDraws(TextAnchor(bounding_box, wrapped_text,
                                                 font_size),
                                      wrapped_text, font_size)
    /\ rpc' = "outlined"
    /\ UNCHANGED <<text_argument, translated_text, bounding_box, font_size,
                   wrapped_text, searches>>
    /\ UNCHANGED <<gvars, fvars, bvars, pvars, svars, evars, wvars>>

\* "Draw main text" and `return image_pil`
RenderFill ==
    /\ rpc = "outlined"
    /\ draws' = Append(draws,
                       DrawText(TextAnchor(bounding_box, wrapped_text, font_size),
                                wrapped_text, font_size, "black"))
    /\ rpc' = "returned"
    /\ UNCHANGED <<text_argument, translated_text, bounding_box, font_size,
                   wrapped_text, searches>>
    /\ UNCHANGED <<gvars, fvars, bvars, pvars, svars, evars, wvars>>

RenderNext ==
    \/ RenderReplace
    \/ RenderUnspace
    \/ RenderCollapse
    \/ RenderAbort
    \/ RenderSearch
    \/ RenderOutline
    \/ RenderFill

\* bound on the length of the texts whose normalization is explored
MaxNormLen == 5

\* the characters of those texts
NormChars == {"a", ".", " ", FullwidthStop, Ellipsis}

\* a call of render_text on a box that is too small, on every explored text:
\* the call normalizes the text and returns
NormalizeInit ==
    /\ text_argument \in SeqUpTo(NormChars, MaxNormLen)
    /\ translated_text = text_argument
    /\ bounding_box = <<0, 0, 10, 50>>
    /\ font_size = 0
    /\ wrapped_text = <<>>
    /\ searches = 0
    /\ draws = <<>>
    /\ rpc = "start"
    /\ boxes = <<>>
    /\ y_threshold = 0
    /\ sorted_boxes = <<>>
    /\ groups = <<>>
    /\ current_group = <<>>
    /\ i = 0
    /\ group_boxes = <<>>
    /\ gpc = "idle"
    /\ text = <<>>
    /\ box_width = 0
    /\ box_height = 0
    /\ max_size = 0
    /\ min_size = 0
    /\ low = 0
    /\ high = 0
    /\ best_size = 0
    /\ best_wrapped_text = <<>>
    /\ size = 0
    /\ result = <<>>
    /\ probes = <<>>
    /\ fpc = "idle"
    /\ BreakIdle
    /\ PageIdle
    /\ SearchIdle
    /\ EditorIdle
    /\ TranslateIdle

NormalizeNext ==
    \/ RenderReplace
    \/ RenderUnspace
    \/ RenderCollapse
    \/ RenderAbort

-----------------------------------------------------------------------------
(* process_manga_page: src/main.py *)

\* the loop of group_bounding_boxes from index k on, as a function
RECURSIVE GroupLoop(_, _, _, _, _)
GroupLoop(sb, k, gs, cg, threshold) ==
    IF k >= Len(sb) THEN AddLastGroup(gs, cg)
    ELSE IF CloseEnough(VerticalDistance(sb[k], sb[k + 1]), threshold)
    THEN GroupLoop(sb, k + 1, gs, Append(cg, sb[k + 1]), threshold)
    ELSE GroupLoop(sb, k + 1, Append(gs, cg), <<sb[k + 1]>>, threshold)

\* group_bounding_boxes(bs, threshold), the value it returns
GroupBoundingBoxes(bs, threshold) ==
    IF bs = <<>> THEN NoBoxesResult
    ELSE GroupLoop(SortedByKey(bs), 1, <<>>, <<SortedByKey(bs)[1]>>, threshold)

\* the detected boxes explored for a page: two lines of one bubble, a box
\* beside the second line, and a box far below
PageBoxes ==
    { <<0, 0, 100, 20>>, <<0, 25, 100, 45>>, <<120, 25, 160, 45>>,
      <<0, 200, 100, 220>> }

\* what extract_text_from_image does for one box: return text, return
\* nothing or blanks, or raise
OcrOutcomes == {"text", "no_text", "ocr_error"}

\* what translate_japanese_to_english does for one group: return a
\* translation, return a "[Translation Error" marker, or raise
TranslationOutcomes == {"translated", "error_marker", "translation_error"}

\* the log entries of the inner loop over the boxes 1..n of group g
RECURSIVE BoxLog(_, _, _)
BoxLog(g, ocr, n) ==
    IF n = 0 THEN <<>>
    ELSE BoxLog(g, ocr, n - 1)
             \o (IF ocr[n] = "text" THEN <<>> ELSE << <<ocr[n], g, n>> >>)

\* `full_japanese_text.strip()` is not empty: some box of the group gave text
SomeText(ocr) == \E n \in DOMAIN ocr : ocr[n] = "text"

\* a call of process_manga_page on a page with the explored detected boxes;
\* everything else is at rest
PageInit ==
    /\ bounding_boxes \in SeqUpTo(PageBoxes, MaxBoxes)
    /\ grouped_boxes = <<>>
    /\ group_index = 0
    /\ translated_texts = <<>>
    /\ inpainted = <<>>
    /\ rendered = <<>>
    /\ saved = "nothing"
    /\ page_log = <<>>
    /\ ppc = "start"
    /\ boxes = <<>>
    /\ y_threshold = 0
    /\ sorted_boxes = <<>>
    /\ groups = <<>>
    /\ current_group = <<>>
    /\ i = 0
    /\ group_boxes = <<>>
    /\ gpc = "idle"
    /\ text = <<>>
    /\ box_width = 0
    /\ box_height = 0
    /\ max_size = 0
    /\ min_size = 0
    /\ low = 0
    /\ high = 0
    /\ best_size = 0
    /\ best_wrapped_text = <<>>
    /\ size = 0
    /\ result = <<>>
    /\ probes = <<>>
    /\ fpc = "idle"
    /\ BreakIdle
    /\ RenderIdle
    /\ SearchIdle
    /\ EditorIdle
    /\ TranslateIdle

\* load_image returns None: "Pipeline aborted: Image loading failed."
PageLoadFailed ==
    /\ ppc = "start"
    /\ page_log' = Append(page_log, <<"load_failed">>)
    /\ ppc' = "returned"
    /\ UNCHANGED <<bounding_boxes, grouped_boxes, group_index,
                   translated_texts, inpainted, rendered, saved>>
    /\ UNCHANGED <<gvars, fvars, bvars, rvars, svars, evars, wvars>>

\* detect_text_regions raises: "Pipeline aborted: Text detection failed"
PageDetectFailed ==
    /\ ppc = "start"
    /\ page_log' = Append(page_log, <<"detect_failed">>)
    /\ ppc' = "returned"
    /\ UNCHANGED <<bounding_boxes, grouped_boxes, group_index,
                   translated_texts, inpainted, rendered, saved>>
    /\ UNCHANGED <<gvars, fvars, bvars, rvars, svars, evars, wvars>>

\* `if not bounding_boxes`: the original image is saved
PageNoRegions ==
    /\ ppc = "start"
    /\ bounding_boxes = <<>>
    /\ page_log' = Append(page_log, <<"no_regions">>)
    /\ saved' = "original"
    /\ ppc' = "returned"
    /\ UNCHANGED <<bounding_boxes, grouped_boxes, group_index,
                   translated_texts, inpainted, rendered>>
    /\ UNCHANGED <<gvars, fvars, bvars, rvars, svars, evars, wvars>>

\* `grouped_boxes = group_bounding_boxes(bounding_boxes)`
PageGroup ==
    /\ ppc = "start"
    /\ bounding_boxes # <<>>
    /\ grouped_boxes' = GroupBoundingBoxes(bounding_boxes, DefaultYThreshold)
    /\ group_index' = 1
    /\ ppc' = "groups"
    /\ UNCHANGED <<bounding_boxes, translated_texts, inpainted, rendered,
                   saved, page_log>>
    /\ UNCHANGED <<gvars, fvars, bvars, rvars, svars, evars, wvars>>

\* one iteration of the loop over the groups in which no box gives text:
\* "No text was extracted for group ... Skipping translation."
PageGroupNoText ==
    /\ ppc = "groups"
    /\ group_index <= Len(grouped_boxes)
    /\ \E ocr \in [1..Len(grouped_boxes[group_index]) -> OcrOutcomes] :
           /\ ~SomeText(ocr)
           /\ page_log' = page_log
                  \o BoxLog(group_index, ocr, Len(grouped_boxes[group_index]))
                  \o << <<"group_no_text", group_index>> >>
    /\ group_index' = group_index + 1
    /\ UNCHANGED <<bounding_boxes, grouped_boxes, translated_texts, inpainted,
                   rendered, saved, ppc>>
    /\ UNCHANGED <<gvars, fvars, bvars, rvars, svars, evars, wvars>>

\* one iteration in which the translation gives an error marker or raises:
\* the group is logged and skipped
PageGroupTranslationFailed ==
    /\ ppc = "groups"
    /\ group_index <= Len(grouped_boxes)
    /\ \E ocr \in [1..Len(grouped_boxes[group_index]) -> OcrOutcomes] :
       \E outcome \in TranslationOutcomes \ {"translated"} :
           /\ SomeText(ocr)
           /\ page_log' = page_log
                  \o BoxLog(group_index, ocr, Len(grouped_boxes[group_index]))
                  \o << <<outcome, group_index>> >>
    /\ group_index' = group_index + 1
    /\ UNCHANGED <<bounding_boxes, grouped_boxes, translated_texts, inpainted,
                   rendered, saved, ppc>>
    /\ UNCHANGED <<gvars, fvars, bvars, rvars, svars, evars, wvars>>

\* one iteration that ends in
\* `translated_texts.append((group_box, english_text))`; the English text of
\* group g is written g
PageGroupTranslated ==
    /\ ppc = "groups"
    /\ group_index <= Len(grouped_boxes)
    /\ \E ocr \in [1..Len(grouped_boxes[group_index]) -> OcrOutcomes] :
           /\ SomeText(ocr)
           /\ page_log' = page_log
                  \o BoxLog(group_index, ocr, Len(grouped_boxes[group_index]))
    /\ translated_texts' =
           Append(translated_texts,
                  <<GetGroupBoundingBox(grouped_boxes[group_index]), group_index>>)
    /\ group_index' = group_index + 1
    /\ UNCHANGED <<bounding_boxes, grouped_boxes, inpainted, rendered, saved,
                   ppc>>
    /\ UNCHANGED <<gvars, fvars, bvars, rvars, svars, evars, wvars>>

\* `if not translated_texts`: the original image is saved
PageNothingTranslated ==
    /\ ppc = "groups"
    /\ group_index > Len(grouped_boxes)
    /\ translated_texts = <<>>
    /\ page_log' = Append(page_log, <<"nothing_translated">>)
    /\ saved' = "original"
    /\ ppc' = "returned"
    /\ UNCHANGED <<bounding_boxes, grouped_boxes, group_index,
                   translated_texts, inpainted, rendered>>
    /\ UNCHANGED <<gvars, fvars, bvars, rvars, svars, evars, wvars>>

\* `remove_text(input_image_path, bounding_boxes, padding=INPAINT_PADDING)`
PageInpaint ==
    /\ ppc = "groups"
    /\ group_index > Len(grouped_boxes)
    /\ translated_texts # <<>>
    /\ inpainted' = bounding_boxes
    /\ group_index' = 1
    /\ ppc' = "rendering"
    /\ UNCHANGED <<bounding_boxes, grouped_boxes, translated_texts, rendered,
                   saved, page_log>>
    /\ UNCHANGED <<gvars, fvars, bvars, rvars, svars, evars, wvars>>

\* remove_text raises: "Pipeline aborted: Inpainting failed"
PageInpaintFailed ==
    /\ ppc = "groups"
    /\ group_index > Len(grouped_boxes)
    /\ translated_texts # <<>>
    /\ page_log' = Append(page_log, <<"inpaint_failed">>)
    /\ ppc' = "returned"
    /\ UNCHANGED <<bounding_boxes, grouped_boxes, group_index,
                   translated_texts, inpainted, rendered, saved>>
    /\ UNCHANGED <<gvars, fvars, bvars, rvars, svars, evars, wvars>>

\* one iteration of the rendering loop: render_text returns
PageRender ==
    /\ ppc = "rendering"
    /\ group_index <= Len(translated_texts)
    /\ rendered' = Append(rendered, translated_texts[group_index])
    /\ group_index' = group_index + 1
    /\ UNCHANGED <<bounding_boxes, grouped_boxes, translated_texts, inpainted,
                   saved, page_log, ppc>>
    /\ UNCHANGED <<gvars, fvars, bvars, rvars, svars, evars, wvars>>

\* render_text raises inside the loop: the `except` around the whole loop
\* logs "Pipeline aborted: Text rendering failed" and returns
PageRenderFailed ==
    /\ ppc = "rendering"
    /\ group_index <= Len(translated_texts)
    /\ page_log' = Append(page_log, <<"render_failed", translated_texts[group_index][2]>>)
    /\ ppc' = "returned"
    /\ UNCHANGED <<bounding_boxes, grouped_boxes, group_index,
                   translated_texts, inpainted, rendered, saved>>
    /\ UNCHANGED <<gvars, fvars, bvars, rvars, svars, evars, wvars>>

\* `final_image.save(output_image_path)`
PageSave ==
    /\ ppc = "rendering"
    /\ group_index > Len(translated_texts)
    /\ saved' = "final"
    /\ ppc' = "returned"
    /\ UNCHANGED <<bounding_boxes, grouped_boxes, group_index,
                   translated_texts, inpainted, rendered, page_log>>
    /\ UNCHANGED <<gvars, fvars, bvars, rvars, svars, evars, wvars>>

\* the save raises: "Failed to save final image"
PageSaveFailed ==
    /\ ppc = "rendering"
    /\ group_index > Len(translated_texts)
    /\ page_log' = Append(page_log, <<"save_failed">>)
    /\ ppc' = "returned"
    /\ UNCHANGED <<bounding_boxes, grouped_boxes, group_index,
                   translated_texts, inpainted, rendered, saved>>
    /\ UNCHANGED <<gvars, fvars, bvars, rvars, svars, evars, wvars>>

PageNext ==
    \/ PageLoadFailed
    \/ PageDetectFailed
    \/ PageNoRegions
    \/ PageGroup
    \/ PageGroupNoText
    \/ PageGroupTranslationFailed
    \/ PageGroupTranslated
    \/ PageNothingTranslated
    \/ PageInpaint
    \/ PageInpaintFailed
    \/ PageRender
    \/ PageRenderFailed
    \/ PageSave
    \/ PageSaveFailed

-----------------------------------------------------------------------------
(* Editor history of MainWindow: src/gui/main_window.py *)

\* bound on the states the undo stack and the redo stack hold together
MaxHistory == 2

\* the canvas boxes are counted up to this number
CanvasCap == 2

\* the data a translation can deliver, a region written as its english_text,
\* and the texts the user can type
TranslationResults == { <<>>, <<"a">> }
EditTexts == {"a", "b"}

\* group_bounding_boxes, calculate_font_size and the other functions of the
\* pipeline are at rest
PipelineIdle ==
    /\ boxes = <<>>
    /\ y_threshold = 0
    /\ sorted_boxes = <<>>
    /\ groups = <<>>
    /\ current_group = <<>>
    /\ i = 0
    /\ group_boxes = <<>>
    /\ gpc = "idle"
    /\ text = <<>>
    /\ box_width = 0
    /\ box_height = 0
    /\ max_size = 0
    /\ min_size = 0
    /\ low = 0
    /\ high = 0
    /\ best_size = 0
    /\ best_wrapped_text = <<>>
    /\ size = 0
    /\ result = <<>>
    /\ probes = <<>>
    /\ fpc = "idle"
    /\ BreakIdle
    /\ RenderIdle
    /\ PageIdle
    /\ SearchIdle

\* _current_selection_index is None, written <<>>; an index is written
\* <<index>>
NoSelection == <<>>

\* MainWindow.__init__: no data, empty stacks, nothing selected
EditorInit ==
    /\ EditorIdle
    /\ TranslateIdle
    /\ PipelineIdle

\* save_state, on the data and the two stacks
SaveState(data, undo, redo) ==
    IF data # <<>>
    THEN [undo_stack |-> Append(undo, data), redo_stack |-> <<>>]
    ELSE [undo_stack |-> undo, redo_stack |-> redo]

\* `self.translated_data[index]['english_text'] = new_text` behind its range
\* check; the index counts from 0
SetEnglishText(data, index, new_text) ==
    IF 0 <= index /\ index < Len(data)
    THEN [data EXCEPT ![index + 1] = new_text]
    ELSE data

\* EditorCanvas.set_translation_data: create_bounding_boxes appends one box
\* per region to the boxes the canvas holds
CanvasAfterSet(n, data) ==
    IF n + Len(data) > CanvasCap THEN CanvasCap ELSE n + Len(data)

\* the last two members of a sequence
LastTwo(s) == IF Len(s) <= 2 THEN s ELSE SubSeq(s, Len(s) - 1, Len(s))

\* the last two handlers that ran and the translated_data each of them found
Handled(name) ==
    /\ last_actions' = LastTwo(Append(last_actions, name))
    /\ snapshots' = LastTwo(Append(snapshots, translated_data))

\* on_translation_finished: the data of the worker replaces translated_data
\* and goes to the canvas; the stacks and the selection stay
EditorTranslationFinished ==
    /\ \E d \in TranslationResults :
           /\ translated_data' = d
           /\ canvas_boxes' = CanvasAfterSet(canvas_boxes, d)
    /\ Handled("translation_finished")
    /\ UNCHANGED <<undo_stack, redo_stack, current_selection_index>>
    /\ UNCHANGED <<gvars, fvars, bvars, rvars, pvars, svars, wvars>>

\* upload_image: EditorCanvas.load_image clears the boxes of the canvas and
\* emits selection_changed(None)
EditorLoadImage ==
    /\ canvas_boxes' = 0
    /\ current_selection_index' = NoSelection
    /\ Handled("load_image")
    /\ UNCHANGED <<translated_data, undo_stack, redo_stack>>
    /\ UNCHANGED <<gvars, fvars, bvars, rvars, pvars, svars, wvars>>

\* a click on a box of the canvas: select_bounding_box emits the index of
\* the box and on_selection_changed stores it
EditorSelect ==
    /\ \E index \in 0..(canvas_boxes - 1) :
           current_selection_index' = <<index>>
    /\ Handled("select")
    /\ UNCHANGED <<translated_data, undo_stack, redo_stack, canvas_boxes>>
    /\ UNCHANGED <<gvars, fvars, bvars, rvars, pvars, svars, wvars>>

\* deselect_all: on_selection_changed(None) hides the text editor
EditorDeselect ==
    /\ current_selection_index # NoSelection
    /\ current_selection_index' = NoSelection
    /\ Handled("deselect")
    /\ UNCHANGED <<translated_data, undo_stack, redo_stack, canvas_boxes>>
    /\ UNCHANGED <<gvars, fvars, bvars, rvars, pvars, svars, wvars>>

\* on_text_edited for a text the user typed: the text editor is shown only
\* while a box is selected
EditorTextEdited ==
    /\ current_selection_index # NoSelection
    /\ translated_data # <<>> => Len(undo_stack) < MaxHistory
    /\ \E new_text \in EditTexts :
       \E st \in {SaveState(translated_data, undo_stack, redo_stack)} :
           /\ undo_stack' = st.undo_stack
           /\ redo_stack' = st.redo_stack
           /\ translated_data' = SetEnglishText(translated_data,
                                                current_selection_index[1],
                                                new_text)
    /\ Handled("text_edited")
    /\ UNCHANGED <<current_selection_index, canvas_boxes>>
    /\ UNCHANGED <<gvars, fvars, bvars, rvars, pvars, svars, wvars>>

\* undo with a state on the undo stack
EditorUndo ==
    /\ undo_stack # <<>>
    /\ redo_stack' = Append(redo_stack, translated_data)
    /\ translated_data' = Last(undo_stack)
    /\ undo_stack' = Front(undo_stack)
    /\ canvas_boxes' = CanvasAfterSet(canvas_boxes, translated_data')
    /\ Handled("undo")
    /\ UNCHANGED current_selection_index
    /\ UNCHANGED <<gvars, fvars, bvars, rvars, pvars, svars, wvars>>

\* undo with an empty undo stack
EditorUndoEmpty ==
    /\ undo_stack = <<>>
    /\ Handled("undo_empty")
    /\ UNCHANGED <<translated_data, undo_stack, redo_stack,
                   current_selection_index, canvas_boxes>>
    /\ UNCHANGED <<gvars, fvars, bvars, rvars, pvars, svars, wvars>>

\* redo with a state on the redo stack
EditorRedo ==
    /\ redo_stack # <<>>
    /\ undo_stack' = Append(undo_stack, translated_data)
    /\ translated_data' = Last(redo_stack)
    /\ redo_stack' = Front(redo_stack)
    /\ canvas_boxes' = CanvasAfterSet(canvas_boxes, translated_data')
    /\ Handled("redo")
    /\ UNCHANGED current_selection_index
    /\ UNCHANGED <<gvars, fvars, bvars, rvars, pvars, svars, wvars>>

\* redo with an empty redo stack
EditorRedoEmpty ==
    /\ redo_stack = <<>>
    /\ Handled("redo_empty")
    /\ UNCHANGED <<translated_data, undo_stack, redo_stack,
                   current_selection_index, canvas_boxes>>
    /\ UNCHANGED <<gvars, fvars, bvars, rvars, pvars, svars, wvars>>

EditorNext ==
    \/ EditorTranslationFinished
    \/ EditorLoadImage
    \/ EditorSelect
    \/ EditorDeselect
    \/ EditorTextEdited
    \/ EditorUndo
    \/ EditorUndoEmpty
    \/ EditorRedo
    \/ EditorRedoEmpty

-----------------------------------------------------------------------------
(* Translation control of MainWindow: src/gui/main_window.py *)

\* bound on the workers one run of the window starts
MaxWorkers == 3

\* the image files the user can pick
ImagePaths == {"page1", "page2"}

\* a TranslationWorker thread: its number and the image_path it was
\* constructed with
Worker(n, image_path) == [id |-> n, image_path |-> image_path]

\* MainWindow.__init__ and the widgets as created: no image, both translate
\* controls disabled, no worker
TranslateInit ==
    /\ TranslateIdle
    /\ EditorIdle
    /\ PipelineIdle

\* upload_image with a file picked: the path is stored, the canvas loads
\* the image and drops what it showed, and both translate controls are
\* enabled
TranslateUpload ==
    /\ \E file_path \in ImagePaths : current_image_path' = file_path
    /\ tl_btn' = TRUE
    /\ translate_toolbar_action' = TRUE
    /\ data_source' = "None"
    /\ UNCHANGED <<translation_worker, running, started>>
    /\ UNCHANGED <<gvars, fvars, bvars, rvars, pvars, svars, evars>>

\* start_translation from an enabled control: both controls are disabled
\* and a worker is created for current_image_path and started
TranslateStart ==
    /\ tl_btn \/ translate_toolbar_action
    /\ current_image_path # "None"
    /\ started < MaxWorkers
    /\ tl_btn' = FALSE
    /\ translate_toolbar_action' = FALSE
    /\ started' = started + 1
    /\ translation_worker' = started + 1
    /\ running' = running \cup {Worker(started + 1, current_image_path)}
    /\ UNCHANGED <<current_image_path, data_source>>
    /\ UNCHANGED <<gvars, fvars, bvars, rvars, pvars, svars, evars>>

\* start_translation when creating or starting the worker raises: the
\* `except` enables both controls again
TranslateStartFailed ==
    /\ tl_btn \/ translate_toolbar_action
    /\ current_image_path # "None"
    /\ tl_btn' = TRUE
    /\ translate_toolbar_action' = TRUE
    /\ UNCHANGED <<current_image_path, translation_worker, running, started,
                   data_source>>
    /\ UNCHANGED <<gvars, fvars, bvars, rvars, pvars, svars, evars>>

\* a running worker emits finished: on_translation_finished enables both
\* controls and puts the data of the worker on the canvas
TranslateFinished ==
    /\ \E w \in running :
           /\ running' = running \ {w}
           /\ data_source' = w.image_path
    /\ tl_btn' = TRUE
    /\ translate_toolbar_action' = TRUE
    /\ UNCHANGED <<current_image_path, translation_worker, started>>
    /\ UNCHANGED <<gvars, fvars, bvars, rvars, pvars, svars, evars>>

\* a running worker emits error: on_translation_error enables both controls
TranslateError ==
    /\ \E w \in running : running' = running \ {w}
    /\ tl_btn' = TRUE
    /\ translate_toolbar_action' = TRUE
    /\ UNCHANGED <<current_image_path, translation_worker, started,
                   data_source>>
    /\ UNCHANGED <<gvars, fvars, bvars, rvars, pvars, svars, evars>>

TranslateNext ==
    \/ TranslateUpload
    \/ TranslateStart
    \/ TranslateStartFailed
    \/ TranslateFinished
    \/ TranslateError

-----------------------------------------------------------------------------
(* Specifications *)

\* calls of group_bounding_boxes on every explored input
SpecGroup == GroupInit /\ [][GroupNext]_vars

\* calls of calculate_font_size on every explored input
SpecFont == FontInit /\ [][FontNext]_vars

\* one more pass of the while loop is entered: the loop condition holds and
\* the next size is handed to the line wrapper
FontProbeIssued ==
    /\ fpc = "search"
    /\ low <= high
    /\ probes' = Append(probes, ProbeSize(low, high))

\* the same calls, which run on until they return: the function is
\* synchronous code that nothing suspends, so it is entered, each pass of
\* its loop is made while the loop condition holds, and it returns
SpecFontFair ==
    /\ FontInit
    /\ [][FontNext]_vars
    /\ WF_vars(FontStart)
    /\ WF_probes(FontProbeIssued)
    /\ WF_vars(FontReturn)

\* calls of calculate_font_size with the line wrapper left open
SpecSearch == SearchInit /\ [][SearchNext]_vars

\* calls of break_long_word on every explored input
SpecBreak == BreakInit /\ [][BreakNext]_vars

\* calls of render_text on every explored text and box
SpecRender == RenderInit /\ [][RenderNext]_vars

\* calls of render_text that stop behind the normalization, on a larger set
\* of texts
SpecNormalize == NormalizeInit /\ [][NormalizeNext]_vars

\* calls of process_manga_page on every explored page, with every outcome
\* of the stages it calls
SpecPage == PageInit /\ [][PageNext]_vars

\* the handlers of MainWindow that touch the editor history, run one at a
\* time by the event loop in any order
SpecEditor == EditorInit /\ [][EditorNext]_vars

\* the handlers of MainWindow that upload an image and start a translation,
\* and the signals of the workers, run one at a time by the event loop in
\* any order
SpecTranslate == TranslateInit /\ [][TranslateNext]_vars


-----------------------------------------------------------------------------
(* Properties of region grouping *)

RECURSIVE Flatten(_)
Flatten(gs) == IF gs = <<>> THEN <<>> ELSE Flatten(Front(gs)) \o Last(gs)

\* number of occurrences of b in the sequence s
Count(b, s) == Cardinality({k \in 1..Len(s) : s[k] = b})

GroupingDone == gpc \in {"done", "boxed"}

\* index of the returned group that holds the k-th box of the sorted order,
\* the groups being laid end to end
GroupOfPos(k) ==
    CHOOSE g \in 1..Len(groups) :
        /\ Len(Flatten(SubSeq(groups, 1, g - 1))) < k
        /\ k <= Len(Flatten(SubSeq(groups, 1, g)))

\* the y-ranges of a and b overlap (the distance between them is negative)
YOverlap(a, b) == a[2] < b[4] /\ b[2] < a[4]

ExampleBoxes == << <<0, 0, 100, 20>>, <<0, 25, 100, 45>>, <<0, 200, 100, 220>> >>

\* C1: the groups returned by group_bounding_boxes are an exact partition of
\* the input list: every box occurs in the groups exactly as often as in the
\* input (none dropped, none duplicated) and no returned group is empty.
C1_Partition ==
    GroupingDone =>
        /\ \A b \in BoxUniverse : Count(b, Flatten(groups)) = Count(b, boxes)
        /\ Len(Flatten(groups)) = Len(boxes)
        /\ \A g \in 1..Len(groups) : groups[g] # <<>>

\* C1 witness: an input with a repeated box has been split into several
\* groups, one of which has several members.
C1_Witness ==
    /\ gpc = "done"
    /\ \E b \in BoxUniverse : Count(b, boxes) >= 2
    /\ Len(groups) >= 2
    /\ \E g \in 1..Len(groups) : Len(groups[g]) >= 2

\* C2: the rectangle get_group_bounding_box returns for a group contains
\* every member of the group, and each of its four bounds is the bound of
\* some member (so it is the elementwise min/min/max/max).
C2_GroupBoxBounds ==
    gpc = "boxed" =>
        /\ Len(group_boxes) = Len(groups)
        /\ \A g \in 1..Len(groups) :
            /\ \A k \in 1..Len(groups[g]) :
                /\ group_boxes[g][1] <= groups[g][k][1]
                /\ group_boxes[g][2] <= groups[g][k][2]
                /\ group_boxes[g][3] >= groups[g][k][3]
                /\ group_boxes[g][4] >= groups[g][k][4]
            /\ \A c \in 1..4 :
                \E k \in 1..Len(groups[g]) : groups[g][k][c] = group_boxes[g][c]

\* C2 witness: a group of several boxes whose enclosing rectangle is none of
\* its members.
C2_Witness ==
    /\ gpc = "boxed"
    /\ \E g \in 1..Len(groups) :
        /\ Len(groups[g]) >= 2
        /\ \A k \in 1..Len(groups[g]) : groups[g][k] # group_boxes[g]

\* C3: two boxes adjacent in the sorted order are in the same group exactly
\* when current.y_min - previous.y_max lies in [0, y_threshold]; and the
\* documented example with y_threshold = 50 gives {box1, box2}, {box3}.
C3_AdjacentRule ==
    GroupingDone =>
        /\ boxes # <<>> => Flatten(groups) = sorted_boxes
        /\ \A k \in 1..(Len(sorted_boxes) - 1) :
            (GroupOfPos(k) = GroupOfPos(k + 1))
                <=> /\ 0 <= sorted_boxes[k + 1][2] - sorted_boxes[k][4]
                    /\ sorted_boxes[k + 1][2] - sorted_boxes[k][4] <= y_threshold
        /\ (boxes = ExampleBoxes /\ y_threshold = 50) =>
            groups = << <<ExampleBoxes[1], ExampleBoxes[2]>>, <<ExampleBoxes[3]>> >>

\* C3 witness: the documented example has been grouped.
C3_Witness ==
    /\ gpc = "done"
    /\ boxes = ExampleBoxes
    /\ y_threshold = 50
    /\ Len(groups) = 2

\* C4: when every input box has y_max > y_min, no returned group holds two
\* boxes whose y-ranges overlap, adjacent in the sorted order or not.
C4_NoOverlapInGroup ==
    (GroupingDone /\ \A k \in 1..Len(boxes) : boxes[k][4] > boxes[k][2]) =>
        \A g \in 1..Len(groups) :
            \A p, q \in 1..Len(groups[g]) :
                p < q => ~YOverlap(groups[g][p], groups[g][q])

\* C4 witness: the input holds two boxes with overlapping y-ranges, and the
\* result holds several groups, one of them with several members.
C4_Witness ==
    /\ gpc = "done"
    /\ \E p, q \in 1..Len(boxes) : p # q /\ YOverlap(boxes[p], boxes[q])
    /\ \E g \in 1..Len(groups) : Len(groups[g]) >= 2
    /\ Len(groups) >= 2

\* C18: group_bounding_boxes on an empty list of boxes returns an empty list
\* of groups, a defined outcome reached without entering the sort or the loop.
C18_EmptyInput ==
    (GroupingDone /\ boxes = <<>>) =>
        (groups = <<>> /\ sorted_boxes = <<>> /\ current_group = <<>>)

\* C18 witness: the call on the empty list has returned.
C18_Witness == gpc = "done" /\ boxes = <<>> /\ Len(groups) = 0

\* C20: the groups laid end to end are the input boxes in ascending
\* (y_min, x_min) order: a rearrangement of the input in which no box comes
\* before a box with a smaller key, so every group is a run of that order.
C20_ReadingOrder ==
    GroupingDone =>
        /\ \A b \in BoxUniverse : Count(b, Flatten(groups)) = Count(b, boxes)
        /\ \A k \in 1..(Len(Flatten(groups)) - 1) :
            \/ Flatten(groups)[k][2] < Flatten(groups)[k + 1][2]
            \/ /\ Flatten(groups)[k][2] = Flatten(groups)[k + 1][2]
               /\ Flatten(groups)[k][1] <= Flatten(groups)[k + 1][1]
        /\ boxes # <<>> => Flatten(groups) = sorted_boxes

\* C20 witness: an input given out of reading order, in both y_min and
\* x_min, has been grouped into several groups.
C20_Witness ==
    /\ gpc = "done"
    /\ Len(groups) >= 2
    /\ \E p, q \in 1..Len(boxes) : p < q /\ boxes[q][2] < boxes[p][2]
    /\ \E p, q \in 1..Len(boxes) :
        p < q /\ boxes[q][2] = boxes[p][2] /\ boxes[q][1] < boxes[p][1]

-----------------------------------------------------------------------------
(* Properties of the line wrapper and of the font-size search *)

\* the line wrapper has been called: size and result are those of a probe
Probed == fpc \in {"search", "returned"} /\ size > 0

\* the line wrapper succeeds at size s for the call's text and box
FitsAt(s) == WrapTextWithBreaking(text, box_width, box_height, s) # None

\* the line wrapper succeeds at no size of [min_size, max_size]
NoSizeFits == \A s \in min_size..max_size : ~FitsAt(s)

\* a size that fits implies that every smaller size of the range fits
\* (stated on neighbouring sizes, which is the same over an interval)
FitIsMonotone ==
    \A s \in min_size..(max_size - 1) : FitsAt(s + 1) => FitsAt(s)

\* the words appended to a text when it grows
AppendedWords ==
    { <<"a">>, <<"b">>, <<"a", "b">>, <<"b", "a", "b">>, <<"a", " ", "b">> }

\* C5: whenever wrap_text_with_breaking returns a text, every line of it,
\* the remainder of a hyphenated word included, is at most box_width wide.
C5_LinesFitWidth ==
    (Probed /\ result # None) =>
        \A k \in 1..Len(SplitOn(result, "\n")) :
            GetTextWidth(SplitOn(result, "\n")[k], size) <= box_width

\* C5 witness: a returned wrap that holds a hyphenated word, the remainder
\* on the following line.
C5_Witness ==
    /\ Probed
    /\ result # None
    /\ \E k \in 1..(Len(result) - 2) :
        result[k] = "-" /\ result[k + 1] = "\n" /\ result[k + 2] \in Letters

\* C6: whenever wrap_text_with_breaking returns a text, the measured height
\* of the block (the lines and the spacing between them) is at most
\* box_height; a block higher than box_height makes it return None.
C6_BlockFitsHeight ==
    Probed =>
        /\ result # None =>
            MultilineTextBBox(result, size)[4] - MultilineTextBBox(result, size)[2]
                <= box_height
        /\ LET st == WrapWords(SplitWords(text), box_width, size)
               wrapped == Join(AllLines(st), "\n")
           IN  (~st.failed /\ MultilineTextBBox(wrapped, size)[4]
                                - MultilineTextBBox(wrapped, size)[2] > box_height)
                   => result = None

\* C6 witness: a returned wrap of several lines that fills more than half of
\* the height of the box.
C6_Witness ==
    /\ Probed
    /\ result # None
    /\ Contains(result, "\n")
    /\ 2 * (MultilineTextBBox(result, size)[4] - MultilineTextBBox(result, size)[2])
           > box_height

\* C7: if fitting is monotone over [min_size, max_size] and some size fits,
\* calculate_font_size returns the largest fitting size of the range and the
\* wrap produced at that size.
C7_LargestFittingSize ==
    (fpc = "returned" /\ FitIsMonotone /\ ~NoSizeFits) =>
        /\ best_size \in min_size..max_size
        /\ FitsAt(best_size)
        /\ \A s \in (best_size + 1)..max_size : ~FitsAt(s)
        /\ best_wrapped_text =
               WrapTextWithBreaking(text, box_width, box_height, best_size)

\* C7 witness: the search returned a size strictly inside the range with a
\* wrap of several lines.
C7_Witness ==
    /\ fpc = "returned"
    /\ FitIsMonotone
    /\ min_size < best_size
    /\ best_size < max_size
    /\ FitsAt(best_size)
    /\ Contains(best_wrapped_text, "\n")

\* C8: for min_size <= max_size the size calculate_font_size returns lies in
\* [min_size, max_size], whether or not any size fits.
C8_SizeInRange ==
    (fpc = "returned" /\ min_size <= max_size) =>
        (min_size <= best_size /\ best_size <= max_size)

\* C8 witness: the search returned from a range of several sizes, none of
\* which fits.
C8_Witness ==
    /\ fpc = "returned"
    /\ min_size < max_size
    /\ NoSizeFits
    /\ SplitWords(text) # <<>>

\* C9 as claimed: when the line wrapper succeeds at no size, the search
\* returns min_size together with what the line wrapper produced at min_size.
C9_Original ==
    (fpc = "returned" /\ min_size <= max_size /\ NoSizeFits) =>
        /\ best_size = min_size
        /\ best_wrapped_text =
               WrapTextWithBreaking(text, box_width, box_height, min_size)

\* C9 as amended: when the line wrapper succeeds at no size, the search does
\* not fail: it returns min_size together with the input text as given,
\* unwrapped.
C9_DegradedResult ==
    (fpc = "returned" /\ NoSizeFits) =>
        (best_size = min_size /\ best_wrapped_text = text)

\* C9 witness: the search returned for a text of several words that fits at
\* no size, min_size having been probed.
C9_Witness ==
    /\ fpc = "returned"
    /\ min_size < max_size
    /\ NoSizeFits
    /\ Len(SplitWords(text)) >= 2
    /\ size = min_size
    /\ result = None

\* C10: with the box and the size bounds fixed, appending words to the text
\* never makes calculate_font_size choose a larger size.
C10_SizeNonIncreasing ==
    fpc = "returned" =>
        \A w \in AppendedWords :
            CalculateFontSize(text \o <<" ">> \o w, box_width, box_height,
                              max_size, min_size)[1] <= best_size

\* C10 witness: the search returned a size above min_size for a text, and
\* the text with a word appended gets a strictly smaller size.
C10_Witness ==
    /\ fpc = "returned"
    /\ SplitWords(text) # <<>>
    /\ best_size > min_size
    /\ \E w \in AppendedWords :
        CalculateFontSize(text \o <<" ">> \o w, box_width, box_height,
                          max_size, min_size)[1] < best_size

\* the glyph metrics do not decrease from size s to size s + 1
MetricsNonDecreasing ==
    \A s \in min_size..(max_size - 1) :
        /\ \A c \in InputChars \cup {"-"} :
            /\ Advance(c, s) <= Advance(c, s + 1)
            /\ LeftBearing(c, s) <= LeftBearing(c, s + 1)
        /\ LineHeight(s) <= LineHeight(s + 1)

\* C19: with glyph widths and heights that do not decrease with the size,
\* the fit predicate of the search is monotone: when the line wrapper
\* succeeds at a size of [min_size, max_size] it succeeds at every smaller
\* size of the range.
C19_FitMonotone ==
    (fpc = "returned" /\ MetricsNonDecreasing) =>
        \A s \in min_size..(max_size - 1) : FitsAt(s + 1) => FitsAt(s)

\* C19 witness: a search over a range in which min_size fits and max_size
\* does not, whose best wrap holds a hyphenated word.
C19_Witness ==
    /\ fpc = "returned"
    /\ min_size < max_size
    /\ FitsAt(min_size)
    /\ ~FitsAt(max_size)
    /\ Contains(best_wrapped_text, "-")

-----------------------------------------------------------------------------
(* Properties of the word breaker *)

\* the string returned for a split at index k
SplitAt(word, k) ==
    SubSeq(word, 1, k) \o <<"-", "\n">> \o SubSeq(word, k + 1, Len(word))

\* the hyphenation indices whose prefix plus hyphen is no wider than max_width
WidthFitting(word, max_width, sz) ==
    {k \in HyphenPositions(word) : GetTextWidth(Prefix(word, k), sz) <= max_width}

\* C11: when break_long_word splits a word wider than max_width, the split
\* is at the largest hyphenation index i whose prefix word[:i] + '-' has a
\* measured width <= max_width, and the result is exactly the two fragments
\* word[:i] + '-' and word[i:], which give back the word without the hyphen.
C11_Original ==
    (/\ bpc = "returned"
     /\ GetTextWidth(break_word, break_size) > break_max_width
     /\ Contains(break_result, "\n")) =>
        /\ WidthFitting(break_word, break_max_width, break_size) # {}
        /\ break_result =
               SplitAt(break_word,
                       SetMax(WidthFitting(break_word, break_max_width, break_size)))
        /\ Len(SplitOn(break_result, "\n")) = 2
        /\ \E k \in 1..(Len(break_word) - 1) :
               /\ SplitOn(break_result, "\n")[1] = Prefix(break_word, k)
               /\ SplitOn(break_result, "\n")[2] =
                      SubSeq(break_word, k + 1, Len(break_word))
               /\ SubSeq(break_word, 1, k) \o SplitOn(break_result, "\n")[2]
                      = break_word

\* C11 divergence: a split made below a larger index whose prefix plus
\* hyphen is no wider than max_width.
C11_Witness ==
    /\ bpc = "returned"
    /\ break_word = <<"b", "b", "b", "b">>
    /\ break_max_width = 60
    /\ break_size = 20
    /\ break_result = <<"b", "-", "\n", "b", "b", "b">>
    /\ GetTextWidth(Prefix(break_word, 2), break_size) <= break_max_width

\* C12: a word without hyphenation points that is wider than the box comes
\* back from the word breaker unbroken, and the line wrapper then returns
\* None for the whole text at that size.
C12_NoHyphenationFailure ==
    Probed =>
        \A k \in 1..Len(SplitWords(text)) :
            (/\ HyphenPositions(SplitWords(text)[k]) = {}
             /\ GetTextWidth(SplitWords(text)[k], size) > box_width) =>
                /\ BreakLongWord(SplitWords(text)[k], box_width, size)
                       = SplitWords(text)[k]
                /\ result = None

\* C12 witness: a text of two words, one that fits the box and one without
\* hyphenation points that is too wide; the wrap at the probed size is None.
C12_Witness ==
    /\ Probed
    /\ Len(SplitWords(text)) = 2
    /\ GetTextWidth(SplitWords(text)[1], size) <= box_width
    /\ HyphenPositions(SplitWords(text)[2]) = {}
    /\ GetTextWidth(SplitWords(text)[2], size) > box_width
    /\ result = None

-----------------------------------------------------------------------------
(* Properties of render_text *)

\* render_text is behind its normalization
Normalized == rpc \in {"normalized", "sized", "outlined", "returned"}

\* t holds n consecutive periods somewhere
HasPeriodRun(t, n) ==
    \E p \in 1..(Len(t) - n + 1) : \A k \in p..(p + n - 1) : t[k] = "."

\* t holds two periods with whitespace, and only whitespace, between them
HasSpacedPeriods(t) ==
    \E p \in 1..Len(t) : \E q \in (p + 2)..Len(t) :
        /\ t[p] = "."
        /\ t[q] = "."
        /\ \A k \in (p + 1)..(q - 1) : t[k] \in Whitespace

\* C13: when the box is not positive in width or in height after the
\* padding is taken off both sides, render_text returns at once: it never
\* calls calculate_font_size, makes no draw call and leaves the image as it
\* was.
C13_AbortOnSmallBox ==
    (RenderBoxWidth(bounding_box) <= 0 \/ RenderBoxHeight(bounding_box) <= 0) =>
        /\ searches = 0
        /\ font_size = 0
        /\ draws = <<>>
        /\ rpc \in {"start", "replaced", "unspaced", "normalized", "returned"}

\* C13 witness: a returned call for a box of positive width and no height,
\* with a text to draw.
C13_Witness ==
    /\ rpc = "returned"
    /\ RenderBoxWidth(bounding_box) > 0
    /\ RenderBoxHeight(bounding_box) <= 0
    /\ \E k \in 1..Len(translated_text) : translated_text[k] \in Letters
    /\ draws = <<>>

\* C14: when the text fits at no size of [min_size, max_size] and the box is
\* positive after padding, render_text still makes every outline draw and
\* the fill draw, of the text itself, at the smallest allowed size.
C14_UnfitStillDrawn ==
    (/\ rpc = "returned"
     /\ RenderBoxWidth(bounding_box) > 0
     /\ RenderBoxHeight(bounding_box) > 0
     /\ \A s \in DefaultMinSize..DefaultMaxSize :
            WrapTextWithBreaking(translated_text, RenderBoxWidth(bounding_box),
                                 RenderBoxHeight(bounding_box), s) = None) =>
        /\ Len(draws) = Len(OutlineOffsets) + 1
        /\ \A k \in 1..Len(draws) :
            /\ draws[k].text = translated_text
            /\ draws[k].size = DefaultMinSize
            /\ draws[k].fill = IF k = Len(draws) THEN "black" ELSE "white"

\* C14 witness: a returned call on a positive box whose text has a word too
\* wide for the box at the smallest size, drawn 25 times.
C14_Witness ==
    /\ rpc = "returned"
    /\ ~BoxTooSmall(bounding_box)
    /\ \A s \in DefaultMinSize..DefaultMaxSize :
           WrapTextWithBreaking(translated_text, RenderBoxWidth(bounding_box),
                                RenderBoxHeight(bounding_box), s) = None
    /\ \E k \in 1..Len(translated_text) : translated_text[k] \in Letters
    /\ Len(draws) = 25
    /\ draws[25].text = translated_text

\* C15: behind the normalization the text holds no run of four or more
\* periods, and a text that came in with a run of three or more periods
\* holds a run of exactly three.
C15_RunsCollapsed ==
    Normalized =>
        /\ ~HasPeriodRun(translated_text, 4)
        /\ HasPeriodRun(text_argument, 3) => HasPeriodRun(translated_text, 3)

\* C15 witness: a text that came in with four periods in a row, or the
\* text ".. .." whose periods only become a run of four when the blank is
\* removed.
C15_Witness ==
    /\ rpc = "normalized"
    /\ \/ HasPeriodRun(text_argument, 4)
       \/ text_argument = <<".", ".", " ", ".", ".">>
    /\ HasPeriodRun(translated_text, 3)

\* C16: behind the normalization the text holds no two periods separated
\* only by whitespace, for every input, alternating ones such as ". . ."
\* included.
C16_Original ==
    Normalized => ~HasSpacedPeriods(translated_text)

\* C16 divergence: the input ". . ." leaves the normalization as ".. .".
C16_Witness ==
    /\ rpc = "normalized"
    /\ text_argument = <<".", " ", ".", " ", ".">>
    /\ translated_text = <<".", ".", " ", ".">>

-----------------------------------------------------------------------------
(* Properties of process_manga_page *)

\* the log holds an entry with this tag
Logged(tag) == \E k \in 1..Len(page_log) : page_log[k][1] = tag

\* a failure of one region was logged: an OCR error on a box, a translation
\* error or error marker for a group, a rendering error for a group
RegionFailed ==
    \/ Logged("ocr_error")
    \/ Logged("error_marker")
    \/ Logged("translation_error")
    \/ Logged("render_failed")

\* a stage that works on the whole page failed: loading, detection,
\* inpainting or saving
PageStageFailed ==
    \/ Logged("load_failed")
    \/ Logged("detect_failed")
    \/ Logged("inpaint_failed")
    \/ Logged("save_failed")

\* C17: a failure while one region is processed (OCR error on a box,
\* translation error or marker for a group, rendering error for a group)
\* only skips that region: when no whole-page stage failed, the page is
\* still saved, and every group that was translated and did not fail in
\* rendering is rendered.
C17_Original ==
    (ppc = "returned" /\ RegionFailed /\ ~PageStageFailed) =>
        /\ saved # "nothing"
        /\ \A k \in 1..Len(translated_texts) :
               (~\E n \in 1..Len(page_log) :
                     page_log[n] = <<"render_failed", translated_texts[k][2]>>)
                   => \E m \in 1..Len(rendered) : rendered[m] = translated_texts[k]

\* C17 divergence: two groups were translated, the first was rendered, the
\* rendering of the second raised, and the call returned without saving.
C17_Witness ==
    /\ ppc = "returned"
    /\ Len(translated_texts) = 2
    /\ Len(rendered) = 1
    /\ Logged("render_failed")
    /\ ~PageStageFailed
    /\ saved = "nothing"

-----------------------------------------------------------------------------
(* Further properties of region grouping *)

\* C21: every iteration of the grouping loop decides by the gap to the
\* immediately preceding box of the sorted order alone: the box joins the
\* current group exactly when that gap lies in [0, y_threshold], whatever
\* its distance from the first box of the group; otherwise the current group
\* is closed and the box starts a new one.
C21_PredecessorDecides ==
    [][(gpc = "loop" /\ i < Len(sorted_boxes) /\ i' = i + 1) =>
          IF /\ 0 <= sorted_boxes[i + 1][2] - sorted_boxes[i][4]
             /\ sorted_boxes[i + 1][2] - sorted_boxes[i][4] <= y_threshold
          THEN /\ current_group' = Append(current_group, sorted_boxes[i + 1])
               /\ groups' = groups
          ELSE /\ current_group' = <<sorted_boxes[i + 1]>>
               /\ groups' = Append(groups, current_group)]_vars

\* C21 witness: a returned group built by chaining, whose last box lies
\* further than y_threshold below the bottom of its first box and which
\* spans more than y_threshold vertically.
C21_Witness ==
    /\ gpc = "done"
    /\ \E g \in 1..Len(groups) :
        /\ Len(groups[g]) >= 3
        /\ Last(groups[g])[2] - groups[g][1][4] > y_threshold
        /\ Last(groups[g])[4] - groups[g][1][2] > y_threshold

\* the sequences that hold the members of s in another order
PermutationsOf(s) ==
    { [k \in 1..Len(s) |-> s[f[k]]] :
        f \in {h \in [1..Len(s) -> 1..Len(s)] :
                  \A a, b \in 1..Len(s) : h[a] = h[b] => a = b} }

\* C29: group_bounding_boxes returns the same groups for every permutation
\* of its input list, boxes that share y_min and x_min but differ in y_max
\* included.
C29_Original ==
    gpc = "done" =>
        \A p \in PermutationsOf(boxes) :
            GroupBoundingBoxes(p, y_threshold) = groups

\* C29 divergence: the boxes (0,0,100,45) and (0,0,100,20) share their sort
\* key; given in this order, the second one is followed by (0,25,100,45) and
\* takes it into its group, given in the other order all three are alone.
C29_Witness ==
    /\ gpc = "done"
    /\ y_threshold = DefaultYThreshold
    /\ boxes = << <<0, 0, 100, 45>>, <<0, 0, 100, 20>>, <<0, 25, 100, 45>> >>
    /\ groups = << << <<0, 0, 100, 45>> >>,
                   << <<0, 0, 100, 20>>, <<0, 25, 100, 45>> >> >>
    /\ GroupBoundingBoxes(<< <<0, 0, 100, 20>>, <<0, 0, 100, 45>>,
                             <<0, 25, 100, 45>> >>, y_threshold)
           = << << <<0, 0, 100, 20>> >>, << <<0, 0, 100, 45>> >>,
                << <<0, 25, 100, 45>> >> >>

-----------------------------------------------------------------------------
(* Further properties of the font-size search *)

\* floor(log2(n)) + 1 for n >= 1, and 0 for n <= 0
RECURSIVE BitLength(_)
BitLength(n) == IF n <= 0 THEN 0 ELSE 1 + BitLength(n \div 2)

\* C22: calculate_font_size returns for every input; it calls the line
\* wrapper at most floor(log2(max_size - min_size + 1)) + 1 times, never
\* twice with the same size and never when min_size > max_size; and every
\* call is a step of its own whose size is computed from the bounds the
\* result of the previous call has set.
C22_LogarithmicProbes ==
    /\ [](/\ Len(probes) <= BitLength(max_size - min_size + 1)
          /\ \A p, q \in 1..Len(probes) : p # q => probes[p] # probes[q]
          /\ min_size > max_size => probes = <<>>)
    /\ [][probes' # probes =>
             /\ probes' = Append(probes, ProbeSize(low, high))
             /\ probes # <<>> =>
                 /\ Last(probes) = size
                 /\ result = None => high = size - 1
                 /\ result # None => low = size + 1]_vars
    /\ <>(fpc = "returned")

\* C22 witness: a search over the default range 10..80 that returned after
\* seven calls of the line wrapper.
C22_Witness ==
    /\ fpc = "returned"
    /\ min_size = DefaultMinSize
    /\ max_size = DefaultMaxSize
    /\ Len(probes) = 7

\* the probed sizes at which the open line wrapper succeeded
SucceededProbes == {probes[k] : k \in 1..Len(probes)} \cap fitting_sizes

\* C27: the pair calculate_font_size returns is consistent whatever set of
\* sizes fits: if a probe succeeded, the size is the largest probed size
\* that succeeded and the text is the wrap made at that size; if none
\* succeeded, the text is the input text, unchanged.
C27_ConsistentPair ==
    fpc = "returned" =>
        IF SucceededProbes # {}
        THEN /\ best_size = SetMax(SucceededProbes)
             /\ best_wrapped_text = OpenWrap(text, best_size, fitting_sizes)
        ELSE /\ best_wrapped_text = text
             /\ ~Contains(best_wrapped_text, "\n")

\* C27 witness: a returned search over sizes whose fit is not monotone: the
\* returned size fits, a smaller size of the range does not, and a larger
\* one does.
C27_Witness ==
    /\ fpc = "returned"
    /\ best_size \in SucceededProbes
    /\ text # <<>>
    /\ \E s \in min_size..max_size : s < best_size /\ s \notin fitting_sizes
    /\ \E s \in min_size..max_size : s > best_size /\ s \in fitting_sizes

-----------------------------------------------------------------------------
(* Further properties of the line wrapper *)

\* the loop state of wrap_text_with_breaking after the first k words of the
\* text, at the size probed last
LoopState(k) == WrapWords(SubSeq(SplitWords(text), 1, k), box_width, size)

\* the line a loop state is building, as it would be measured
CurrentLine(st) == Join(st.current_line_words, " ")

\* the loop body on word k has closed the line that was being built
ClosedLine(k) ==
    /\ LoopState(k - 1).current_line_words # <<>>
    /\ Len(LoopState(k).lines) > Len(LoopState(k - 1).lines)
    /\ LoopState(k).lines[Len(LoopState(k - 1).lines) + 1]
           = CurrentLine(LoopState(k - 1))

\* the loop body on word k has put a hyphenated prefix of the word on a line
\* of its own, behind every line closed before, and started the next line
\* with the remainder
BrokenAt(k) ==
    \E p \in 1..(Len(SplitWords(text)[k]) - 1) :
        /\ LoopState(k).lines # <<>>
        /\ Last(LoopState(k).lines)
               = SubSeq(SplitWords(text)[k], 1, p) \o <<"-">>
        /\ Front(LoopState(k).lines)
               = AllLines(LoopState(k - 1))
        /\ LoopState(k).current_line_words
               = << SubSeq(SplitWords(text)[k], p + 1, Len(SplitWords(text)[k])) >>

\* C23: the line wrapper is greedy first-fit. In every call made by the
\* search, for every input word reached without failure: if the current
\* line with a space and the word measures at most box_width the word is
\* appended and no line is closed; a line is closed before the word only
\* when that measure exceeds box_width; the word is broken or the wrap
\* fails at the word only when the word alone measures more than box_width;
\* a word that alone fits starts the new line whole; and a broken word
\* leaves its hyphenated prefix on a line of its own with the remainder
\* starting the following line.  The lines of a successful result are the
\* lines so built.
C23_GreedyFirstFit ==
    probes # <<>> =>
        /\ \A k \in 1..Len(SplitWords(text)) :
              ~LoopState(k - 1).failed =>
                 LET word == SplitWords(text)[k]
                     test_line == IF LoopState(k - 1).current_line_words = <<>>
                                  THEN word
                                  ELSE CurrentLine(LoopState(k - 1))
                                           \o <<" ">> \o word
                     fits == InkWidth(test_line, size) <= box_width
                     alone == InkWidth(word, size) <= box_width
                 IN  /\ fits =>
                          /\ LoopState(k).lines = LoopState(k - 1).lines
                          /\ LoopState(k).current_line_words
                                = Append(LoopState(k - 1).current_line_words, word)
                          /\ ~LoopState(k).failed
                     /\ ClosedLine(k) => ~fits
                     /\ (~fits /\ alone) =>
                          /\ LoopState(k).lines = AllLines(LoopState(k - 1))
                          /\ LoopState(k).current_line_words = <<word>>
                          /\ ~LoopState(k).failed
                     /\ (LoopState(k).failed \/ BrokenAt(k)) => ~alone
                     /\ ~alone => (LoopState(k).failed \/ BrokenAt(k))
        /\ result # None =>
              /\ ~LoopState(Len(SplitWords(text))).failed
              /\ result = Join(AllLines(LoopState(Len(SplitWords(text)))), "\n")

\* C23 witness: a successful wrap in which a word that did not fit alone
\* was broken into a hyphenated prefix line and a remainder.
C23_Witness ==
    /\ probes # <<>>
    /\ result # None
    /\ \E k \in 1..Len(SplitWords(text)) : BrokenAt(k)
    /\ Contains(result, "-")

\* a wrapped text with every line break that does not follow a hyphen
\* replaced by a single space
RECURSIVE Respaced(_)
Respaced(t) ==
    IF t = <<>> THEN <<>>
    ELSE IF Last(t) = "\n" /\ (Len(t) = 1 \/ t[Len(t) - 1] # "-")
         THEN Append(Respaced(Front(t)), " ")
         ELSE Append(Respaced(Front(t)), Last(t))

\* a text with every hyphen that is followed by a line break removed
\* together with the line break
RECURSIVE Unhyphenated(_)
Unhyphenated(t) ==
    IF t = <<>> THEN <<>>
    ELSE IF Len(t) >= 2 /\ t[1] = "-" /\ t[2] = "\n"
         THEN Unhyphenated(SubSeq(t, 3, Len(t)))
         ELSE <<t[1]>> \o Unhyphenated(SubSeq(t, 2, Len(t)))

\* how often a character occurs in a text
Occurrences(t, c) == Cardinality({k \in 1..Len(t) : t[k] = c})

\* C28: a successful wrap preserves the text. Whenever the line wrapper
\* returns a text, removing every hyphen-plus-line-break and replacing the
\* other line breaks by single spaces gives the input words in their order
\* joined by single spaces, and the piece of the result that stands for an
\* input word holds at most one line break.
C28_TextPreserved ==
    (probes # <<>> /\ result # None) =>
        /\ Unhyphenated(Respaced(result)) = Join(SplitWords(text), " ")
        /\ SplitWords(text) # <<>> =>
              /\ Len(SplitOn(Respaced(result), " ")) = Len(SplitWords(text))
              /\ \A k \in 1..Len(SplitWords(text)) :
                    /\ Unhyphenated(SplitOn(Respaced(result), " ")[k])
                          = SplitWords(text)[k]
                    /\ Occurrences(SplitOn(Respaced(result), " ")[k], "\n") <= 1
        /\ SplitWords(text) = <<>> => result = <<>>

\* C28 witness: a successful wrap of a text with a blank beside its word, in
\* which the word was broken behind a hyphen.
C28_Witness ==
    /\ probes # <<>>
    /\ result # None
    /\ Contains(text, " ")
    /\ Occurrences(result, "-") = 1
    /\ Occurrences(result, "\n") = 1
    /\ Unhyphenated(Respaced(result)) = Join(SplitWords(text), " ")
-----------------------------------------------------------------------------
(* Further properties of render_text *)

\* the indices of the draw commands made with a fill colour
DrawsIn(colour) == {n \in 1..Len(draws) : draws[n].fill = colour}

\* the positions around an anchor within the stroke width, the anchor itself
\* left out
Around(anchor) ==
    { <<anchor[1] + dx, anchor[2] + dy>> :
          dx \in (0 - OutlineWidth)..OutlineWidth,
          dy \in (0 - OutlineWidth)..OutlineWidth } \ {anchor}

\* C24: render_text emits its draw commands in a fixed order. Every draw is
\* of the wrapped text at the chosen size, in white or in black; the white
\* draws come first, one at each position around the anchor within the
\* stroke width and none at the anchor; a black draw is made only at the
\* anchor, only once, only after all the white draws and as the last
\* command: after it the draw commands never change.
C24_OutlineBeforeFill ==
    /\ [](\E anchor \in {TextAnchor(bounding_box, wrapped_text, font_size)} :
            /\ \A n \in 1..Len(draws) :
                  /\ draws[n].text = wrapped_text
                  /\ draws[n].size = font_size
                  /\ draws[n].fill \in {"white", "black"}
                  /\ draws[n].fill = "white" => draws[n].xy \in Around(anchor)
                  /\ draws[n].fill = "black" =>
                        /\ draws[n].xy = anchor
                        /\ n = Len(draws)
                        /\ DrawsIn("white") = 1..(n - 1)
                        /\ {draws[m].xy : m \in 1..(n - 1)} = Around(anchor)
                        /\ n - 1 = Cardinality(Around(anchor))
                        /\ rpc = "returned"
            /\ \A m, n \in DrawsIn("white") :
                  m # n => draws[m].xy # draws[n].xy
            /\ (rpc = "returned" /\ draws # <<>>) =>
                  Cardinality(DrawsIn("black")) = 1)
    /\ [][/\ DrawsIn("black") # {} => draws' = draws
          /\ draws' # draws =>
                /\ Len(draws') > Len(draws)
                /\ SubSeq(draws', 1, Len(draws)) = draws]_vars

\* C24 witness: a returned call with 24 white draws, the first two steps of
\* the nested loops at the top-left offsets, behind them the one black draw
\* at the anchor.
C24_Witness ==
    /\ rpc = "returned"
    /\ Len(draws) = 25
    /\ DrawsIn("white") = 1..24
    /\ draws[25].fill = "black"
    /\ draws[25].xy = TextAnchor(bounding_box, wrapped_text, font_size)
    /\ draws[1].xy = <<draws[25].xy[1] - 2, draws[25].xy[2] - 2>>
    /\ draws[2].xy = <<draws[25].xy[1] - 2, draws[25].xy[2] - 1>>
    /\ wrapped_text # <<>>
-----------------------------------------------------------------------------
(* Further properties of process_manga_page *)

\* the groups a detected box belongs to
GroupsOf(box) ==
    {g \in 1..Len(grouped_boxes) :
        \E k \in 1..Len(grouped_boxes[g]) : grouped_boxes[g][k] = box}

\* the translated text of group g was rendered into the box of the group
RenderedGroup(g) ==
    \E m \in 1..Len(rendered) :
        rendered[m] = <<GetGroupBoundingBox(grouped_boxes[g]), g>>

\* C30: on a page that is saved with its translations, every detected box
\* whose area was passed to inpainting belongs to a group whose translated
\* text was rendered into the box of that group.
C30_Original ==
    saved = "final" =>
        \A n \in 1..Len(inpainted) :
            \E g \in GroupsOf(inpainted[n]) : RenderedGroup(g)

\* C30 divergence: a page of two groups saved as final; one group was
\* skipped, the other was translated and rendered, and the boxes of both
\* were inpainted.
C30_Witness ==
    /\ saved = "final"
    /\ Len(grouped_boxes) = 2
    /\ Len(rendered) = 1
    /\ \E n \in 1..Len(inpainted) :
          /\ GroupsOf(inpainted[n]) # {}
          /\ \A g \in GroupsOf(inpainted[n]) : ~RenderedGroup(g)
    /\ \E n \in 1..Len(inpainted) :
          \E g \in GroupsOf(inpainted[n]) : RenderedGroup(g)
-----------------------------------------------------------------------------
(* Properties of the editor history *)

\* an undo that found a state on its stack, followed at once by redo, and a
\* redo that found one, followed at once by undo, leave translated_data as
\* the first of the two handlers found it
RoundTripRestores ==
    (last_actions = <<"undo", "redo">> \/ last_actions = <<"redo", "undo">>)
        => translated_data = snapshots[1]

\* a step of undo on an empty undo stack or of redo on an empty redo stack
\* changes neither the data nor a stack
EmptyStackStep ==
    (/\ last_actions' # <<>>
     /\ \/ Last(last_actions') = "undo_empty" /\ undo_stack = <<>>
        \/ Last(last_actions') = "redo_empty" /\ redo_stack = <<>>)
        => UNCHANGED <<translated_data, undo_stack, redo_stack, canvas_boxes,
                       current_selection_index>>

\* the handler of a text edit that ran at once after an undo
EditedAfterUndo == last_actions = <<"undo", "text_edited">>

\* a text edit made at once after an undo, on data that holds a region,
\* leaves the redo stack empty
EditOnDataClearsRedo ==
    (EditedAfterUndo /\ snapshots[2] # <<>>) => redo_stack = <<>>

\* C25: undo followed at once by redo, and redo followed at once by undo,
\* restore translated_data; undo on an empty undo stack and redo on an
\* empty redo stack change nothing; after a text edit that follows an undo
\* the redo stack is empty.
C25_Original ==
    /\ [](RoundTripRestores /\ (EditedAfterUndo => redo_stack = <<>>))
    /\ [][EmptyStackStep]_vars

\* C25 divergence: an undo has restored an empty translated_data, the user
\* has typed into the text editor of the box that is still selected, and
\* the redo stack still holds the state the undo left.
C25_Witness ==
    /\ EditedAfterUndo
    /\ snapshots[2] = <<>>
    /\ translated_data = <<>>
    /\ redo_stack # <<>>
    /\ current_selection_index # NoSelection
-----------------------------------------------------------------------------
(* Properties of the translation control *)

\* C26: while a translation worker runs, the translate button and the
\* toolbar action are disabled; at most one worker runs at any time; and the
\* result on the canvas was computed from the image that is loaded.
C26_Original ==
    /\ running # {} => (~tl_btn /\ ~translate_toolbar_action)
    /\ Cardinality(running) <= 1
    /\ data_source # "None" => data_source = current_image_path

\* C26 divergence: while a worker runs both translate controls are enabled,
\* and the canvas shows the result of a worker that was started for another
\* image than the loaded one.
C26_Witness ==
    /\ running # {}
    /\ tl_btn
    /\ translate_toolbar_action
    /\ data_source \in ImagePaths
    /\ current_image_path \in ImagePaths
    /\ data_source # current_image_path
=============================================================================
